---------------------------- MODULE Spec2Model ----------------------------
(***************************************************************************)
(* PassVault: the credential cryptography subsystem and the server routes  *)
(* around it.                                                              *)
(*                                                                         *)
(* Strings are sequences of characters, a character is a small natural     *)
(* number.  The cipher is CryptoJS' passphrase mode (OpenSSL format:       *)
(* "Salted__" ++ salt ++ AES-CBC(PKCS7(UTF-8(plaintext))), Base64), kept   *)
(* step for step and scaled down: a byte has ByteBits bits, a block has    *)
(* BlockSize bytes, the block cipher is a keyed permutation of the blocks. *)
(* Nothing in the format authenticates the ciphertext; the only checks     *)
(* decrypt makes are the UTF-8 decoding and the emptiness test.            *)
(***************************************************************************)
EXTENDS Integers, Sequences, FiniteSets, TLC

\* ------------------------------------------------------------- bounds
MaxPlainLen == 2        \* longest plaintext secret, in characters

\* ------------------------------------------------------ scale of the cipher
ByteBits   == 3         \* bits of a byte (8 in the code)
CharBits   == 2         \* bits of a Base64 digit (6 in the code)
BlockSize  == 2         \* bytes of a cipher block (16 in the code)
ByteMod    == 2 ^ ByteBits
CharMod    == 2 ^ CharBits
BlockMod   == ByteMod ^ BlockSize
AsciiMod   == ByteMod \div 2          \* bytes below are one-byte characters
LeadMin    == AsciiMod + (ByteMod \div 4)  \* bytes from here lead a two-byte character
PadChar    == CharMod                 \* the Base64 '='
SaltedMagic == <<5>>                  \* "Salted__"
None       == <<"none">>

Bytes == 0 .. (ByteMod - 1)

RECURSIVE Xor(_, _)
Xor(a, b) ==
  IF a = 0 THEN b
  ELSE IF b = 0 THEN a
  ELSE (((a % 2) + (b % 2)) % 2) + 2 * Xor(a \div 2, b \div 2)

RECURSIVE Flatten(_)
Flatten(ss) == IF ss = <<>> THEN <<>> ELSE Head(ss) \o Flatten(Tail(ss))

\* ---------------------------------------------------------------- SHA-256
\* The digest of a string, modelled as collision free: the number whose
\* digits (base CharBase) are the characters of the string.
CharBase == ByteMod + 2
RECURSIVE SHA256(_)
SHA256(s) == IF s = <<>> THEN 0 ELSE (s[1] + 1) + CharBase * SHA256(Tail(s))


\* PasswordCrypto.generateMasterKey: SHA256(username + password), as hex.
generateMasterKey(username, password) == SHA256(username \o password)

\* ------------------------------------------------------------------ UTF-8
Utf8Char(c) ==
  IF c < AsciiMod THEN <<c>>
  ELSE <<LeadMin + ((c - AsciiMod) \div 2), AsciiMod + ((c - AsciiMod) % 2)>>

\* CryptoJS.enc.Utf8.parse
Utf8Parse(s) == Flatten([i \in 1 .. Len(s) |-> Utf8Char(s[i])])

\* CryptoJS.enc.Utf8.stringify: fails with "Malformed UTF-8 data".
RECURSIVE Utf8Stringify(_)
Utf8Stringify(bs) ==
  IF bs = <<>> THEN [ok |-> TRUE, str |-> <<>>]
  ELSE IF bs[1] < AsciiMod THEN
    LET r == Utf8Stringify(Tail(bs))
    IN  IF r.ok THEN [ok |-> TRUE, str |-> <<bs[1]>> \o r.str] ELSE r
  ELSE IF bs[1] >= LeadMin /\ Len(bs) >= 2 /\ bs[2] >= AsciiMod /\ bs[2] < LeadMin THEN
    LET r == Utf8Stringify(Tail(Tail(bs)))
        c == AsciiMod + (bs[1] - LeadMin) * 2 + (bs[2] - AsciiMod)
    IN  IF r.ok THEN [ok |-> TRUE, str |-> <<c>> \o r.str] ELSE r
  ELSE [ok |-> FALSE, str |-> <<>>]

\* ----------------------------------------------------------------- Base64
RECURSIVE ToBits(_, _)
ToBits(n, w) == IF w = 0 THEN <<>> ELSE ToBits(n \div 2, w - 1) \o <<(n % 2)>>

RECURSIVE FromBits(_)
FromBits(bits) ==
  IF bits = <<>> THEN 0 ELSE 2 * FromBits(SubSeq(bits, 1, Len(bits) - 1)) + bits[Len(bits)]

RECURSIVE Group(_, _)
Group(bits, w) ==
  IF Len(bits) < w THEN <<>>
  ELSE <<FromBits(SubSeq(bits, 1, w))>> \o Group(SubSeq(bits, w + 1, Len(bits)), w)

RECURSIVE Zeros(_)
Zeros(n) == IF n <= 0 THEN <<>> ELSE <<0>> \o Zeros(n - 1)

RECURSIVE Repeat(_, _)
Repeat(x, n) == IF n <= 0 THEN <<>> ELSE <<x>> \o Repeat(x, n - 1)

\* digits of one Base64 group (4 in the code)
GroupChars == 3

\* CryptoJS.enc.Base64.stringify
Base64Stringify(bs) ==
  LET bits   == Flatten([i \in 1 .. Len(bs) |-> ToBits(bs[i], ByteBits)])
      fill   == (CharBits - (Len(bits) % CharBits)) % CharBits
      digits == Group(bits \o Zeros(fill), CharBits)
      pad    == (GroupChars - (Len(digits) % GroupChars)) % GroupChars
  IN  digits \o Repeat(PadChar, pad)

\* CryptoJS.enc.Base64.parse: the digits before the first '=' are decoded,
\* bits left over after the last whole byte are dropped.
Base64Parse(str) ==
  LET pads   == {i \in 1 .. Len(str) : str[i] = PadChar}
      n      == IF pads = {} THEN Len(str)
                ELSE (CHOOSE i \in pads : \A j \in pads : i <= j) - 1
      bits   == Flatten([i \in 1 .. n |-> ToBits(str[i], CharBits)])
  IN  Group(bits, ByteBits)

\* ------------------------------------------------------------ block cipher
BlockOf(bs)  == (bs[1] * ByteMod) + bs[2]
BytesOf(x)   == <<x \div ByteMod, x % ByteMod>>
XorBlock(a, b) == <<Xor(a[1], b[1]), Xor(a[2], b[2])>>

\* The keyed permutation standing for AES, and its inverse.
EncryptBlock(key, b) ==
  BytesOf((((BlockOf(b) + ByteMod * key) % BlockMod) * 13 + 7) % BlockMod)
DecryptBlock(key, b) ==
  BytesOf(((((BlockOf(b) + BlockMod - 7) * 5) % BlockMod) + BlockMod - ByteMod * key) % BlockMod)

\* CryptoJS.kdf.OpenSSL (EvpKDF, one round of MD5 over passphrase ++ salt):
\* the digest is cut into the key and the IV.
EvpKDF(passphrase, salt) ==
  LET d == ((passphrase * ByteMod + salt) * 37 + 11) % BlockMod
  IN  [key |-> d \div ByteMod, iv |-> BytesOf(d % ByteMod)]

\* CryptoJS.pad.Pkcs7.pad
Pkcs7Pad(bs) ==
  LET n == BlockSize - (Len(bs) % BlockSize) IN bs \o Repeat(n, n)

\* CryptoJS.pad.Pkcs7.unpad: the last byte is subtracted from the length,
\* whatever it is.
Pkcs7Unpad(bs) ==
  IF bs = <<>> THEN <<>>
  ELSE LET n == Len(bs) - bs[Len(bs)]
       IN  IF n > 0 THEN SubSeq(bs, 1, n) ELSE <<>>

RECURSIVE CbcEncrypt(_, _, _)
CbcEncrypt(key, prev, bs) ==
  IF bs = <<>> THEN <<>>
  ELSE LET c == EncryptBlock(key, XorBlock(SubSeq(bs, 1, BlockSize), prev))
       IN  c \o CbcEncrypt(key, c, SubSeq(bs, BlockSize + 1, Len(bs)))

\* A last block that is cut short is processed with zeros after it and the
\* output is cut to the length of the input.
RECURSIVE CbcDecryptBlocks(_, _, _)
CbcDecryptBlocks(key, prev, bs) ==
  IF bs = <<>> THEN <<>>
  ELSE LET c == SubSeq(bs, 1, BlockSize)
       IN  XorBlock(DecryptBlock(key, c), prev)
             \o CbcDecryptBlocks(key, c, SubSeq(bs, BlockSize + 1, Len(bs)))

CbcDecrypt(key, iv, ct) ==
  LET fill == (BlockSize - (Len(ct) % BlockSize)) % BlockSize
  IN  SubSeq(CbcDecryptBlocks(key, iv, ct \o Zeros(fill)), 1, Len(ct))

\* What PasswordCrypto.decrypt ends in: a string, or 'Failed to decrypt password'.
DecryptionError == [ok |-> FALSE, value |-> <<>>]
Decrypted(str)  == [ok |-> TRUE, value |-> str]

\* PasswordCrypto.encrypt; salt is the random salt CryptoJS draws.
encrypt(password, masterKey, salt) ==
  LET d  == EvpKDF(masterKey, salt)
      ct == CbcEncrypt(d.key, d.iv, Pkcs7Pad(Utf8Parse(password)))
  IN  Base64Stringify(SaltedMagic \o <<salt>> \o ct)

\* PasswordCrypto.decrypt.  OpenSSL.parse takes the salt from a blob that
\* starts with the magic; without it the KDF draws a random salt (rnd).
\* 'Malformed UTF-8 data' and the empty result both end in the error.
decrypt(encryptedPassword, masterKey, rnd) ==
  LET raw    == Base64Parse(encryptedPassword)
      salted == Len(raw) >= 1 /\ raw[1] = SaltedMagic[1]
      salt   == IF salted THEN (IF Len(raw) >= 2 THEN raw[2] ELSE 0) ELSE rnd
      ct     == IF salted THEN SubSeq(raw, 3, Len(raw)) ELSE raw
      d      == EvpKDF(masterKey, salt)
      dec    == Utf8Stringify(Pkcs7Unpad(CbcDecrypt(d.key, d.iv, ct)))
  IN  IF ~dec.ok \/ dec.str = <<>> THEN DecryptionError ELSE Decrypted(dec.str)

\* ------------------------------------------------------------ input sets
PlainChars == {1, 4}
RECURSIVE StringsUpTo(_, _)
StringsUpTo(chars, n) ==
  IF n = 0 THEN {<<>>}
  ELSE LET shorter == StringsUpTo(chars, n - 1)
       IN  shorter \cup {<<c>> \o s : c \in chars, s \in {t \in shorter : Len(t) = n - 1}}
Plaintexts == StringsUpTo(PlainChars, MaxPlainLen)
Usernames  == {<<1>>, <<1, 2>>}
Passwords  == {<<1>>, <<2, 1>>}
Base64Chars == 0 .. PadChar

VARIABLES
  plaintext,    \* the secret handed to encrypt
  sealUser,     \* the (username, password) the sealing key is derived from
  sealPass,
  blob,         \* the sealed secret, as stored
  tampered,     \* whether one digit of blob was changed after sealing
  openUser,     \* the (username, password) the opening key is derived from
  openPass,
  opened,       \* what decrypt ended in
  phase,        \* "plain", "sealed", "opened", "reopened"
  sealedBlobs,  \* what the repeated calls of encrypt on plaintext returned
  openedBlobs   \* what decrypt ended in on each of sealedBlobs

cipherVars == <<plaintext, sealUser, sealPass, blob, tampered, openUser, openPass, opened, phase,
                sealedBlobs, openedBlobs>>

VARIABLES
  users,          \* the users table: rows [id, username, password, recoveryKey]
  credentials,    \* the credentials table: rows [id, userId, encryptedPassword]
  nextCredId,     \* ids handed out so far (gen_random_uuid)
  sessionUser,    \* req.user of the browser's session, 0 when not authenticated
  clientPassword, \* the account password the client holds for key derivation
  issued,         \* per user id, the recovery phrase shown at registration
  resetCount,     \* per user id, the password updates made by /api/reset-password
  sealedWith,     \* per credential id, the password, the reset count and the path at sealing
  last            \* the last request or client operation and what it ended in

vaultVars == <<users, credentials, nextCredId, sessionUser, clientPassword, issued,
               resetCount, sealedWith, last>>
VARIABLES
  authMounted,     \* whether AuthPage is mounted (the location is /auth)
  showRecoveryKey, \* AuthPage state: the recovery-key modal is open
  shownKey,        \* AuthPage state recoveryKey: the phrase generated by onRegister
  hasConfirmed,    \* RecoveryKeyModal state: the "I have saved" checkbox
  registerStatus,  \* registerMutation: "idle", "pending", "success", "error"
  authUser,        \* useAuth().user: the username, <<>> when logged out
  pendingUser,     \* the username of the registration in flight
  attempts,        \* onRegister calls so far
  keyAttempt,      \* the onRegister call that generated shownKey, 0 for none
  sent,            \* per onRegister call, the phrase sent with the request
  succeeded,       \* the onRegister calls whose registration succeeded
  shows            \* the openings of the modal: [attempt, phrase] displayed

pageVars == <<authMounted, showRecoveryKey, shownKey, hasConfirmed, registerStatus,
              authUser, pendingUser, attempts, keyAttempt, sent, succeeded, shows>>

VARIABLES
  genOptions,   \* the options handed to PasswordGenerator.generate
  genOutcome,   \* what generate ended in
  strPassword,  \* the string handed to analyzePasswordStrength
  strOutcome,   \* what analyzePasswordStrength returned
  toolPhase     \* "idle", "ready", "done"

toolVars == <<genOptions, genOutcome, strPassword, strOutcome, toolPhase>>

VARIABLES
  resets          \* per /api/reset-password request in flight: its body and where it stands

raceVars == <<resets>>

VARIABLES
  editing,        \* HomePage: the credential the modal edits, 0 for none, -1 for a new one
  form,           \* the modal form's values: whose fields they are and the password field
  formDefaults,   \* the form's default values, which form.reset() goes back to
  clipboard,      \* what navigator.clipboard.writeText was last given
  notice,         \* the title of the toast the last step showed, "" for none
  exportFile,     \* the records of the last export file
  importFile,     \* ImportExportModal: the parsed records of the chosen file
  importResult,   \* ImportExportModal: the counts and errors the last import displayed
  posted          \* the POST /api/credentials bodies the import of the chosen file sent

importVars == <<importFile, importResult, posted>>
clientVars == <<editing, form, formDefaults, clipboard, notice, exportFile, importVars>>
flowVars == <<raceVars, clientVars>>
restVars == <<pageVars, toolVars, flowVars>>
vars == <<cipherVars, vaultVars, restVars>>

PageIdle ==
  /\ authMounted = FALSE /\ showRecoveryKey = FALSE /\ shownKey = <<>>
  /\ hasConfirmed = FALSE /\ registerStatus = "idle" /\ authUser = <<>>
  /\ pendingUser = <<>> /\ attempts = 0 /\ keyAttempt = 0 /\ sent = <<>>
  /\ succeeded = {} /\ shows = <<>>

ToolIdle ==
  /\ genOptions = None /\ genOutcome = None /\ strPassword = <<>>
  /\ strOutcome = None /\ toolPhase = "idle"

BlankForm == [owner |-> 0, password |-> <<>>]
NoFile    == [written |-> FALSE, format |-> "", records |-> {}, errors |-> {}]
NoText    == [written |-> FALSE, text |-> <<>>]
Text(str) == [written |-> TRUE, text |-> str]
RaceIdle == resets = <<>>
NoChoice  == [chosen |-> FALSE, records |-> <<>>]
NoImport  == [set |-> FALSE, successful |-> 0, failed |-> 0, errors |-> <<>>]
ClientIdle ==
  /\ editing = 0 /\ form = BlankForm /\ formDefaults = BlankForm
  /\ clipboard = NoText /\ notice = "" /\ exportFile = NoFile
  /\ importFile = NoChoice /\ importResult = NoImport /\ posted = <<>>
FlowIdle == RaceIdle /\ ClientIdle
RestIdle == PageIdle /\ ToolIdle /\ FlowIdle

NoLast == [route |-> "none", status |-> 0, message |-> "", username |-> <<>>,
           key |-> <<>>, cred |-> 0, result |-> [ok |-> FALSE, value |-> <<>>]]

CipherIdle ==
  /\ plaintext = <<>> /\ sealUser = <<>> /\ sealPass = <<>> /\ blob = <<>>
  /\ tampered = FALSE /\ openUser = <<>> /\ openPass = <<>> /\ opened = None
  /\ phase = "idle"
  /\ sealedBlobs = <<>> /\ openedBlobs = <<>>

VaultIdle ==
  /\ users = <<>> /\ credentials = {} /\ nextCredId = 0 /\ sessionUser = 0
  /\ clientPassword = <<>> /\ issued = <<>> /\ resetCount = <<>>
  /\ sealedWith = <<>> /\ last = NoLast

InitCipher ==
  /\ plaintext \in Plaintexts
  /\ sealUser \in Usernames
  /\ sealPass \in Passwords
  /\ blob = <<>>
  /\ tampered = FALSE
  /\ openUser = <<>>
  /\ openPass = <<>>
  /\ opened = None
  /\ phase = "plain"
  /\ sealedBlobs = <<>>
  /\ openedBlobs = <<>>
  /\ VaultIdle
  /\ RestIdle

Seal(salt) ==
  /\ phase = "plain"
  /\ blob' = encrypt(plaintext, generateMasterKey(sealUser, sealPass), salt)
  /\ phase' = "sealed"
  /\ UNCHANGED <<plaintext, sealUser, sealPass, tampered, openUser, openPass, opened,
                 sealedBlobs, openedBlobs, vaultVars, restVars>>

\* One digit of the stored blob is replaced by another one.
Tamper(i, c) ==
  /\ phase = "sealed"
  /\ ~tampered
  /\ i \in 1 .. Len(blob)
  /\ blob[i] # c
  /\ blob' = [blob EXCEPT ![i] = c]
  /\ tampered' = TRUE
  /\ UNCHANGED <<plaintext, sealUser, sealPass, openUser, openPass, opened, phase,
                 sealedBlobs, openedBlobs, vaultVars, restVars>>

Open(username, password, rnd) ==
  /\ phase = "sealed"
  /\ opened' = decrypt(blob, generateMasterKey(username, password), rnd)
  /\ openUser' = username
  /\ openPass' = password
  /\ phase' = "opened"
  /\ UNCHANGED <<plaintext, sealUser, sealPass, blob, tampered, sealedBlobs, openedBlobs,
                 vaultVars, restVars>>

NextCipher ==
  \/ \E salt \in Bytes : Seal(salt)
  \/ \E i \in 1 .. Len(blob), c \in Base64Chars : Tamper(i, c)
  \/ \E u \in Usernames, p \in Passwords, rnd \in Bytes : Open(u, p, rnd)

SpecCipher == InitCipher /\ [][NextCipher]_vars

SameKey == generateMasterKey(sealUser, sealPass) = generateMasterKey(openUser, openPass)

\* C1: a secret sealed under a key and opened, untouched, under the same key
\* gives the plaintext back, the empty plaintext included.
C1_RoundTrip ==
  (phase = "opened" /\ ~tampered /\ SameKey) => opened = Decrypted(plaintext)

\* C2: opening an untouched blob under another key than the sealing key
\* always ends in the decryption error.
C2_WrongKeyRejected ==
  (phase = "opened" /\ ~tampered /\ ~SameKey) => opened = DecryptionError

\* C3: opening, under the sealing key, a blob of which one digit was changed
\* always ends in the decryption error.
C3_TamperDetected ==
  (phase = "opened" /\ tampered /\ SameKey) => opened = DecryptionError

\* C4: two (username, password) pairs that differ in at least one component
\* never derive the same key.
C4_DistinctPairsDistinctKeys ==
  (phase = "opened" /\ (sealUser # openUser \/ sealPass # openPass)) => ~SameKey

\* ======================================================================
\* The server: users and credentials tables, the recovery routes, and the
\* client operations that seal and open secrets.
\* ======================================================================

\* -------------------------------------------------- server/auth (hashing)
\* scrypt, modelled as collision free and apart from SHA-256.
ScryptTag == ByteMod
Scrypt(s, salt) == SHA256(<<ScryptTag, salt>> \o s)

\* hashPassword: "<scrypt hex>.<salt>"
hashPassword(password, salt) == <<Scrypt(password, salt), salt>>
comparePasswords(supplied, stored) ==
  Len(stored) = 2 /\ Scrypt(supplied, stored[2]) = stored[1]

\* The recovery phrase is hashed like a password before it is stored.
hashRecoveryKey(recoveryKey, salt) == <<Scrypt(recoveryKey, salt), salt>>
compareRecoveryKeys(supplied, stored) ==
  Len(stored) = 2 /\ Scrypt(supplied, stored[2]) = stored[1]

\* ------------------------------------------------------- server/storage
NoUser == [id |-> 0, username |-> <<>>, password |-> <<>>, recoveryKey |-> <<>>]
Thrown == [id |-> -1, username |-> <<>>, password |-> <<>>, recoveryKey |-> <<>>]

getUserByUsername(us, username) ==
  IF \E i \in 1 .. Len(us) : us[i].username = username
  THEN us[CHOOSE i \in 1 .. Len(us) : us[i].username = username]
  ELSE NoUser

createUser(us, insertUser) ==
  Append(us, [id |-> Len(us) + 1, username |-> insertUser.username,
              password |-> insertUser.password, recoveryKey |-> insertUser.recoveryKey])

updateUserPasswordAndKey(us, id, password) ==
  [i \in 1 .. Len(us) |->
     IF us[i].id = id THEN [us[i] EXCEPT !.password = password, !.recoveryKey = password]
     ELSE us[i]]

updateUserPasswordSaltOnly(us, id, password) ==
  [i \in 1 .. Len(us) |->
     IF us[i].id = id THEN [us[i] EXCEPT !.password = <<us[i].password[1], password[2]>>]
     ELSE us[i]]

updateUserPassword(us, id, password) ==
  [i \in 1 .. Len(us) |-> IF us[i].id = id THEN [us[i] EXCEPT !.password = password] ELSE us[i]]

verifyRecoveryKeyNoCheck(us, username, recoveryKey) == getUserByUsername(us, username)

verifyRecoveryKeyPlain(us, username, recoveryKey) ==
  LET user == getUserByUsername(us, username)
  IN  IF user.id = 0 THEN NoUser
      ELSE IF recoveryKey = user.recoveryKey THEN user ELSE NoUser

verifyRecoveryKeyThrows(us, username, recoveryKey) ==
  LET user == getUserByUsername(us, username)
  IN  IF user.id = 0 THEN Thrown
      ELSE IF compareRecoveryKeys(recoveryKey, user.recoveryKey) THEN user ELSE NoUser

verifyRecoveryKey(us, username, recoveryKey) ==
  LET user == getUserByUsername(us, username)
  IN  IF user.id = 0 THEN NoUser
      ELSE IF compareRecoveryKeys(recoveryKey, user.recoveryKey) THEN user ELSE NoUser

getCredentials(creds, userId) == {c \in creds : c.userId = userId}

createCredential(creds, id, insertCredential) ==
  creds \cup {[id |-> id, userId |-> insertCredential.userId,
               encryptedPassword |-> insertCredential.encryptedPassword]}

\* -------------------------------------------------------- server/routes
Response(status, message, userId) == [status |-> status, message |-> message, userId |-> userId]

\* POST /api/validate-recovery-key
ValidateRecoveryKeyResponse(us, username, recoveryKey) ==
  LET user == verifyRecoveryKey(us, username, recoveryKey)
  IN  IF user.id < 0 THEN Response(500, "Failed to validate recovery key", 0)
      ELSE IF user.id = 0 THEN Response(400, "Invalid username or recovery key", 0)
      ELSE Response(200, "valid", user.id)

\* POST /api/reset-password: the answer, and the users table it leaves.
ResetPasswordResponse(us, username, recoveryKey) ==
  LET user == verifyRecoveryKey(us, username, recoveryKey)
  IN  IF user.id < 0 THEN Response(500, "Failed to reset password", 0)
      ELSE IF user.id = 0 THEN Response(400, "Invalid username or recovery key", 0)
      ELSE Response(200, "Password reset successfully", 0)

ResetPasswordUsersByName(us, username, recoveryKey, newPassword, salt) ==
  LET user == getUserByUsername(us, username)
  IN  IF user.id <= 0 THEN us
      ELSE updateUserPassword(us, user.id, hashPassword(newPassword, salt))

ResetPasswordUsers(us, username, recoveryKey, newPassword, salt) ==
  LET user == verifyRecoveryKey(us, username, recoveryKey)
  IN  IF user.id <= 0 THEN us
      ELSE updateUserPassword(us, user.id, hashPassword(newPassword, salt))

\* ------------------------------------------------------------- bounds
MaxCreds  == 1
MaxResets == 2

\* ------------------------------------------------------- request inputs
Phrases         == {<<1, 2>>, <<1, 3>>}
HashSalts       == {0}
VaultPlaintexts == {<<1>>, <<4, 1>>}
VaultSalts      == {0, 3}

\* What a client can put in the recoveryKey field: a phrase, or a value read
\* from the recoveryKey column.
SuppliedKeys(us) == Phrases \cup {us[i].recoveryKey : i \in 1 .. Len(us)}

Answer(route, status, message, username, key, cred, result) ==
  [route |-> route, status |-> status, message |-> message, username |-> username,
   key |-> key, cred |-> cred, result |-> result]
NoResult == [ok |-> FALSE, value |-> <<>>]

\* POST /api/register followed by the client keeping the session: the
\* password and the recovery phrase are stored hashed.
Register(username, password, recoveryKey, salt) ==
  /\ sessionUser = 0
  /\ IF getUserByUsername(users, username).id # 0
     THEN /\ last' = Answer("register", 400, "Username already exists", username, <<>>, 0, NoResult)
          /\ UNCHANGED <<users, sessionUser, clientPassword, issued, resetCount>>
     ELSE /\ users' = createUser(users, [username |-> username,
                                         password |-> hashPassword(password, salt),
                                         recoveryKey |-> hashRecoveryKey(recoveryKey, salt)])
          /\ sessionUser' = Len(users) + 1
          /\ clientPassword' = password
          /\ issued' = Append(issued, recoveryKey)
          /\ resetCount' = Append(resetCount, 0)
          /\ last' = Answer("register", 201, "", username, <<>>, 0, NoResult)
  /\ UNCHANGED <<credentials, nextCredId, sealedWith, cipherVars, restVars>>

\* POST /api/login
Login(username, password) ==
  /\ sessionUser = 0
  /\ LET user == getUserByUsername(users, username)
     IN  IF user.id # 0 /\ comparePasswords(password, user.password)
         THEN /\ sessionUser' = user.id
              /\ clientPassword' = password
              /\ last' = Answer("login", 200, "", username, <<>>, 0, NoResult)
         ELSE /\ last' = Answer("login", 401, "", username, <<>>, 0, NoResult)
              /\ UNCHANGED <<sessionUser, clientPassword>>
  /\ UNCHANGED <<users, credentials, nextCredId, issued, resetCount, sealedWith, cipherVars, restVars>>

\* POST /api/logout
Logout ==
  /\ sessionUser # 0
  /\ sessionUser' = 0
  /\ clientPassword' = <<>>
  /\ last' = Answer("logout", 200, "", <<>>, <<>>, 0, NoResult)
  /\ UNCHANGED <<users, credentials, nextCredId, issued, resetCount, sealedWith, cipherVars, restVars>>

\* credential-modal saveMutation for a new credential, and the
\* POST /api/credentials it sends.
SaveCredential(password, salt) ==
  /\ sessionUser # 0
  /\ nextCredId < MaxCreds
  /\ LET user              == users[sessionUser]
         masterKey         == generateMasterKey(user.username, clientPassword)
         encryptedPassword == encrypt(password, masterKey, salt)
     IN  /\ credentials' = createCredential(credentials, nextCredId + 1,
                             [userId |-> sessionUser, encryptedPassword |-> encryptedPassword])
         /\ sealedWith' = Append(sealedWith, [password |-> clientPassword,
                                              resets |-> resetCount[sessionUser],
                                              plain |-> password, by |-> "modal"])
         /\ last' = Answer("save", 201, "", user.username, <<>>, nextCredId + 1, NoResult)
  /\ nextCredId' = nextCredId + 1
  /\ UNCHANGED <<users, sessionUser, clientPassword, issued, resetCount, cipherVars, restVars>>

\* credential-card copyPassword on one of the session's credentials.
CopyPassword(cred, rnd) ==
  /\ sessionUser # 0
  /\ cred \in getCredentials(credentials, sessionUser)
  /\ LET user      == users[sessionUser]
         masterKey == generateMasterKey(user.username, clientPassword)
     IN  last' = Answer("copy", 0, "", user.username, <<>>, cred.id,
                        decrypt(cred.encryptedPassword, masterKey, rnd))
  /\ UNCHANGED <<users, credentials, nextCredId, sessionUser, clientPassword, issued,
                 resetCount, sealedWith, cipherVars, restVars>>

\* POST /api/validate-recovery-key
ValidateRecoveryKey(username, recoveryKey) ==
  /\ LET r == ValidateRecoveryKeyResponse(users, username, recoveryKey)
     IN  last' = Answer("validate", r.status, r.message, username, recoveryKey, r.userId, NoResult)
  /\ UNCHANGED <<users, credentials, nextCredId, sessionUser, clientPassword, issued,
                 resetCount, sealedWith, cipherVars, restVars>>

\* POST /api/reset-password
ResetPasswordWipes(username, recoveryKey, newPassword, salt) ==
  LET user == verifyRecoveryKey(users, username, recoveryKey)
      r    == ResetPasswordResponse(users, username, recoveryKey)
  IN  /\ user.id > 0 => resetCount[user.id] < MaxResets
      /\ users' = ResetPasswordUsers(users, username, recoveryKey, newPassword, salt)
      /\ resetCount' = IF user.id > 0 THEN [resetCount EXCEPT ![user.id] = @ + 1]
                       ELSE resetCount
      /\ credentials' = IF user.id > 0 THEN credentials \ getCredentials(credentials, user.id)
                        ELSE credentials
      /\ last' = Answer("reset", r.status, r.message, username, recoveryKey, 0, NoResult)
      /\ UNCHANGED <<nextCredId, sessionUser, clientPassword, issued, sealedWith,
                     cipherVars, restVars>>

ResetPassword(username, recoveryKey, newPassword, salt) ==
  LET user == verifyRecoveryKey(users, username, recoveryKey)
      r    == ResetPasswordResponse(users, username, recoveryKey)
  IN  /\ user.id > 0 => resetCount[user.id] < MaxResets
      /\ users' = ResetPasswordUsers(users, username, recoveryKey, newPassword, salt)
      /\ resetCount' = IF user.id > 0 THEN [resetCount EXCEPT ![user.id] = @ + 1]
                       ELSE resetCount
      /\ last' = Answer("reset", r.status, r.message, username, recoveryKey, 0, NoResult)
      /\ UNCHANGED <<credentials, nextCredId, sessionUser, clientPassword, issued,
                     sealedWith, cipherVars, restVars>>

\* ------------------------------------------------------- specifications
InitVault == CipherIdle /\ VaultIdle /\ RestIdle

\* The password manager in use: accounts, sealed credentials, recovery.
VaultUsernames == {<<1>>}
VaultPhrases   == {<<1, 2>>}

NextVault ==
  \/ \E u \in VaultUsernames, p \in Passwords, k \in VaultPhrases, s \in HashSalts :
       Register(u, p, k, s)
  \/ \E u \in Usernames, p \in Passwords : Login(u, p)
  \/ Logout
  \/ \E p \in VaultPlaintexts, salt \in VaultSalts : SaveCredential(p, salt)
  \/ \E c \in credentials, rnd \in Bytes : CopyPassword(c, rnd)
  \/ \E u \in Usernames, k \in Phrases, p \in Passwords, s \in HashSalts :
       ResetPassword(u, k, p, s)

SpecVault == InitVault /\ [][NextVault]_vars

\* The recovery routes under every phrase and verifier a client can send.
RecoveryPassword == <<1>>
NextRecovery ==
  \/ \E u \in Usernames, k \in Phrases, s \in HashSalts :
       Register(u, RecoveryPassword, k, s)
  \/ Logout
  \/ \E u \in Usernames, k \in SuppliedKeys(users) : ValidateRecoveryKey(u, k)
  \/ \E u \in Usernames, k \in SuppliedKeys(users), p \in Passwords, s \in HashSalts :
       ResetPassword(u, k, p, s)

SpecRecovery == InitVault /\ [][NextRecovery]_vars

\* ---------------------------------------------------------------- claims
Accounts == 1 .. Len(users)

\* C5: once an account's password was reset through /api/reset-password and
\* the user logged in with the new password, copying a credential sealed
\* before the reset ends in the decryption error.
C5_OldSecretsLostAfterReset ==
  (/\ last.route = "copy"
   /\ resetCount[sessionUser] > sealedWith[last.cred].resets
   /\ clientPassword # sealedWith[last.cred].password
   /\ comparePasswords(clientPassword, users[sessionUser].password))
  => last.result = DecryptionError

\* C6: a step of /api/reset-password, whatever it answers, leaves every row
\* of the credentials table as it was.
C6_ResetKeepsCredentials ==
  [][last'.route = "reset" => credentials' = credentials]_vars

C6_Witness ==
  /\ last.route = "reset" /\ last.status = 200
  /\ \E c \in credentials : users[c.userId].username = last.username

\* C7: verifyRecoveryKey returns the account exactly when the username exists
\* and the phrase matches its stored verifier; for an unknown username or any
\* phrase other than the issued one it returns no account, and the reset
\* request is then answered 400 and leaves the users table as it was.
C7_VerifyExactly ==
  [][last'.route = "reset" =>
       LET u       == last'.username
           k       == last'.key
           account == getUserByUsername(users, u)
           found   == verifyRecoveryKey(users, u, k)
           matches == account.id # 0 /\ compareRecoveryKeys(k, account.recoveryKey)
       IN  /\ matches => found = account /\ last'.status = 200
           /\ ~matches => found = NoUser
           /\ (account.id = 0 \/ k # issued[account.id]) =>
                /\ found = NoUser
                /\ last'.status = 400
                /\ users' = users
    ]_vars

C7_Witness ==
  /\ last.route = "reset" /\ last.status = 400
  /\ getUserByUsername(users, last.username).id # 0
  /\ last.key \in Phrases

\* C8: both recovery routes answer a request for an unknown username with the
\* same status and message as a request for an existing username with a wrong
\* phrase.
C8_NoEnumeration ==
  \A u1 \in Usernames, u2 \in Usernames :
    \A k1 \in SuppliedKeys(users), k2 \in SuppliedKeys(users) :
      (/\ getUserByUsername(users, u1).id = 0
       /\ getUserByUsername(users, u2).id # 0
       /\ ~compareRecoveryKeys(k2, getUserByUsername(users, u2).recoveryKey))
      => /\ ValidateRecoveryKeyResponse(users, u1, k1) = ValidateRecoveryKeyResponse(users, u2, k2)
         /\ ResetPasswordResponse(users, u1, k1) = ResetPasswordResponse(users, u2, k2)

C8_Witness ==
  /\ last.route = "validate" /\ last.status = 400
  /\ getUserByUsername(users, last.username).id # 0
  /\ last.key \in Phrases
  /\ \E u \in Usernames : getUserByUsername(users, u).id = 0

\* C9: the authorization that let one password update through (the username
\* and its recovery phrase) does not let a second one through.
C9_NoReplay ==
  \A i \in Accounts : resetCount[i] <= 1

\* C10: the recoveryKey column holds a verifier of the issued phrase and not
\* the phrase, and a supplied value passes only through that verifier: the
\* stored value itself, sent as the phrase, is refused.
C10_VerifierOnly ==
  \A i \in Accounts :
    /\ users[i].recoveryKey # issued[i]
    /\ verifyRecoveryKey(users, users[i].username, issued[i]) = users[i]
    /\ verifyRecoveryKey(users, users[i].username, users[i].recoveryKey) = NoUser

C10_Witness ==
  /\ Len(users) = 2
  /\ last.route = "validate" /\ last.status = 200

\* ======================================================================
\* AuthPage and the recovery-key modal it opens after a registration.
\* ======================================================================
MaxAttempts == 2

\* useEffect "show recovery key modal when registration succeeds": the new
\* value of showRecoveryKey.
EffectShowNoKeyTest(isSuccess, isPending, key, show) ==
  IF isSuccess /\ ~isPending THEN TRUE ELSE show

EffectShow(isSuccess, isPending, key, show) ==
  IF isSuccess /\ ~isPending /\ key # <<>> THEN TRUE ELSE show

\* useEffect that leaves /auth for / : whether it redirects.
EffectRedirect(user, show, isSuccess) == user # <<>> /\ ~show /\ ~isSuccess

\* The modal's openings are logged when showRecoveryKey turns true.
Opened(show, attempt, key) ==
  IF show /\ ~showRecoveryKey THEN Append(shows, [attempt |-> attempt, phrase |-> key])
  ELSE shows

InitPage ==
  /\ CipherIdle /\ VaultIdle /\ ToolIdle /\ FlowIdle
  /\ authMounted = TRUE /\ showRecoveryKey = FALSE /\ shownKey = <<>>
  /\ hasConfirmed = FALSE /\ registerStatus = "idle" /\ authUser = <<>>
  /\ pendingUser = <<>> /\ attempts = 0 /\ keyAttempt = 0 /\ sent = <<>>
  /\ succeeded = {} /\ shows = <<>>

\* AuthPage.onRegister: a phrase is generated, kept in the page's state and
\* sent with the registration request.
OnRegister(username, key) ==
  /\ authMounted /\ authUser = <<>> /\ registerStatus # "pending"
  /\ attempts < MaxAttempts
  /\ shownKey' = key
  /\ attempts' = attempts + 1
  /\ keyAttempt' = attempts + 1
  /\ sent' = Append(sent, key)
  /\ pendingUser' = username
  /\ registerStatus' = "pending"
  /\ LET show == EffectShow(FALSE, TRUE, key, showRecoveryKey)
     IN  /\ showRecoveryKey' = show
         /\ shows' = Opened(show, attempts + 1, key)
  /\ UNCHANGED <<authMounted, hasConfirmed, authUser, succeeded, cipherVars, vaultVars, toolVars,
                 flowVars>>

\* The registration request is answered: registerMutation settles and, on
\* success, the hook sets the user.
RegisterSettles(ok) ==
  /\ registerStatus = "pending"
  /\ registerStatus' = IF ok THEN "success" ELSE "error"
  /\ authUser' = IF ok THEN pendingUser ELSE authUser
  /\ succeeded' = IF ok THEN succeeded \cup {attempts} ELSE succeeded
  /\ pendingUser' = <<>>
  /\ LET show  == EffectShow(ok, FALSE, shownKey, showRecoveryKey)
         leave == EffectRedirect(authUser', show, ok)
     IN  /\ showRecoveryKey' = show
         /\ shows' = Opened(show, keyAttempt, shownKey)
         /\ authMounted' = ~leave
         /\ hasConfirmed' = IF show /\ ~showRecoveryKey THEN FALSE ELSE hasConfirmed
  /\ UNCHANGED <<shownKey, attempts, keyAttempt, sent, cipherVars, vaultVars, toolVars,
                 flowVars>>

\* RecoveryKeyModal: the checkbox.
ToggleConfirmed ==
  /\ authMounted /\ showRecoveryKey
  /\ hasConfirmed' = ~hasConfirmed
  /\ UNCHANGED <<authMounted, showRecoveryKey, shownKey, registerStatus, authUser,
                 pendingUser, attempts, keyAttempt, sent, succeeded, shows,
                 cipherVars, vaultVars, toolVars,
                 flowVars>>

\* RecoveryKeyModal.handleContinue and AuthPage.handleRecoveryKeySaved: the
\* modal closes and the location becomes /, which unmounts the page.
HandleContinue ==
  /\ authMounted /\ showRecoveryKey /\ hasConfirmed
  /\ showRecoveryKey' = FALSE
  /\ authMounted' = FALSE
  /\ shownKey' = <<>>
  /\ keyAttempt' = 0
  /\ hasConfirmed' = FALSE
  /\ UNCHANGED <<registerStatus, authUser, pendingUser, attempts, sent, succeeded, shows,
                 cipherVars, vaultVars, toolVars,
                 flowVars>>

DialogOpenFollowsRequest(isOpen, requested) == requested

\* <Dialog open={isOpen}> without onOpenChange: what the dialog shows when
\* Escape, a click outside or its close button asks for `requested`.
DialogOpen(isOpen, requested) == isOpen

\* The user presses Escape, clicks outside the modal or on its close
\* button.
DialogDismiss ==
  /\ authMounted /\ showRecoveryKey
  /\ showRecoveryKey' = DialogOpen(showRecoveryKey, FALSE)
  /\ UNCHANGED <<authMounted, shownKey, hasConfirmed, registerStatus, authUser,
                 pendingUser, attempts, keyAttempt, sent, succeeded, shows,
                 cipherVars, vaultVars, toolVars, flowVars>>

\* AuthPage.onLogin answered with the user.
LoginSucceeds(username) ==
  /\ authMounted /\ authUser = <<>> /\ registerStatus # "pending"
  /\ authUser' = username
  /\ LET leave == EffectRedirect(username, showRecoveryKey, registerStatus = "success")
     IN  /\ authMounted' = ~leave
         /\ shownKey' = IF leave THEN <<>> ELSE shownKey
         /\ keyAttempt' = IF leave THEN 0 ELSE keyAttempt
  /\ UNCHANGED <<showRecoveryKey, hasConfirmed, registerStatus, pendingUser, attempts,
                 sent, succeeded, shows, cipherVars, vaultVars, toolVars,
                 flowVars>>

\* A fresh AuthPage is mounted: its state starts empty and both effects run.
MountAuthPage(user) ==
  LET isSuccess == registerStatus = "success"
      show      == EffectShow(isSuccess, registerStatus = "pending", <<>>, FALSE)
      leave     == EffectRedirect(user, show, isSuccess)
  IN  /\ authMounted' = ~leave
      /\ showRecoveryKey' = show
      /\ shows' = Opened(show, 0, <<>>)
      /\ shownKey' = <<>>
      /\ keyAttempt' = 0
      /\ hasConfirmed' = FALSE

\* HomePage.handleLogout: the user is cleared and the location becomes /auth.
HandleLogout ==
  /\ ~authMounted /\ authUser # <<>>
  /\ authUser' = <<>>
  /\ MountAuthPage(<<>>)
  /\ UNCHANGED <<registerStatus, pendingUser, attempts, sent, succeeded,
                 cipherVars, vaultVars, toolVars,
                 flowVars>>

\* The logged-in user opens /auth.
VisitAuth ==
  /\ ~authMounted /\ authUser # <<>>
  /\ MountAuthPage(authUser)
  /\ UNCHANGED <<registerStatus, authUser, pendingUser, attempts, sent, succeeded,
                 cipherVars, vaultVars, toolVars,
                 flowVars>>

\* The logged-in user opens / while AuthPage is mounted.
VisitHome ==
  /\ authMounted /\ authUser # <<>>
  /\ authMounted' = FALSE
  /\ showRecoveryKey' = FALSE
  /\ shownKey' = <<>>
  /\ keyAttempt' = 0
  /\ hasConfirmed' = FALSE
  /\ UNCHANGED <<registerStatus, authUser, pendingUser, attempts, sent, succeeded, shows,
                 cipherVars, vaultVars, toolVars,
                 flowVars>>

NextPage ==
  \/ \E u \in Usernames, k \in Phrases : OnRegister(u, k)
  \/ \E ok \in BOOLEAN : RegisterSettles(ok)
  \/ ToggleConfirmed
  \/ HandleContinue
  \/ DialogDismiss
  \/ \E u \in Usernames : LoginSucceeds(u)
  \/ HandleLogout
  \/ VisitAuth
  \/ VisitHome

SpecPage == InitPage /\ [][NextPage]_vars

\* C11: the modal opens only for a registration that succeeded, showing the
\* phrase that registration sent, and it opens exactly once for it: no later
\* event opens it again.
C11_PhraseShownOnce ==
  /\ \A i \in 1 .. Len(shows) :
       /\ shows[i].attempt \in succeeded
       /\ shows[i].phrase = sent[shows[i].attempt]
       /\ \A j \in 1 .. Len(shows) : shows[j].attempt = shows[i].attempt => j = i
  /\ \A a \in succeeded : \E i \in 1 .. Len(shows) : shows[i].attempt = a

C11_Witness ==
  /\ Len(shows) = 1 /\ attempts = 2 /\ registerStatus = "error"
  /\ authMounted /\ ~showRecoveryKey /\ 1 \in succeeded

\* ======================================================================
\* PasswordGenerator.  A character is a one-character string; the classes
\* keep their order and are cut to a few characters each.
\* ======================================================================
MaxGenLength == 3

UPPERCASE == <<"A", "B">>
LOWERCASE == <<"a", "b">>
NUMBERS   == <<"0">>
SYMBOLS   == <<"!">>

\* The values Math.random() is cut to: enough to reach every index of the
\* longest charset.
Draws == 0 .. (Len(UPPERCASE \o LOWERCASE \o NUMBERS \o SYMBOLS) - 1)

PolicyError    == [ok |-> FALSE, value |-> <<"At least one character type must be selected">>]
Generated(str) == [ok |-> TRUE, value |-> str]

\* getRandomChar: charset[Math.floor(Math.random() * charset.length)], which
\* is undefined for the empty charset.
getRandomChar(charset, r) ==
  IF charset = <<>> THEN "undefined" ELSE charset[(r % Len(charset)) + 1]

\* shuffleString: a sort under a random comparator leaves some permutation.
shuffleString(str, order) == [i \in 1 .. Len(str) |-> str[order[i]]]

Charset(options) ==
  (IF options.uppercase THEN UPPERCASE ELSE <<>>)
    \o (IF options.lowercase THEN LOWERCASE ELSE <<>>)
    \o (IF options.numbers THEN NUMBERS ELSE <<>>)
    \o (IF options.symbols THEN SYMBOLS ELSE <<>>)

\* The classes that give a guaranteed character, in the order of the pushes.
SelectedTypes(options) ==
  (IF options.uppercase THEN <<UPPERCASE>> ELSE <<>>)
    \o (IF options.lowercase THEN <<LOWERCASE>> ELSE <<>>)
    \o (IF options.numbers THEN <<NUMBERS>> ELSE <<>>)
    \o (IF options.symbols THEN <<SYMBOLS>> ELSE <<>>)

\* The random numbers one call consumes, and the length of what it shuffles.
DrawCount(options) ==
  IF options.length > Len(SelectedTypes(options)) THEN options.length
  ELSE Len(SelectedTypes(options))

generateNoGuarantee(options, random, order) ==
  LET charset  == Charset(options)
      password == [i \in 1 .. options.length |-> getRandomChar(charset, random[i])]
  IN  IF charset = <<>> THEN PolicyError
      ELSE Generated(shuffleString(password, [i \in 1 .. options.length |-> i]))

generateNoCharsetTest(options, random, order) ==
  LET charset  == Charset(options)
      password == [i \in 1 .. options.length |-> getRandomChar(charset, random[i])]
  IN  Generated(password)

generateOneMore(options, random, order) ==
  LET charset  == Charset(options)
      types    == SelectedTypes(options)
      password == [i \in 1 .. Len(types) |-> getRandomChar(types[i], random[i])]
                    \o [i \in 1 .. (options.length + 1 - Len(types)) |->
                          getRandomChar(charset, random[1])]
  IN  IF charset = <<>> THEN PolicyError ELSE Generated(password)

\* PasswordGenerator.generate, with the random numbers it draws and the
\* permutation the shuffle ends in.
generate(options, random, order) ==
  LET charset         == Charset(options)
      types           == SelectedTypes(options)
      guaranteedChars == [i \in 1 .. Len(types) |-> getRandomChar(types[i], random[i])]
      password        == guaranteedChars
                           \o [i \in 1 .. (options.length - Len(types)) |->
                                 getRandomChar(charset, random[Len(types) + i])]
  IN  IF charset = <<>> THEN PolicyError
      ELSE Generated(shuffleString(password, order))

GenOptions ==
  [length : 0 .. MaxGenLength, uppercase : BOOLEAN, lowercase : BOOLEAN,
   numbers : BOOLEAN, symbols : BOOLEAN]

InitGenerator ==
  /\ CipherIdle /\ VaultIdle /\ PageIdle /\ FlowIdle
  /\ genOptions \in GenOptions
  /\ genOutcome = None
  /\ strPassword = <<>>
  /\ strOutcome = None
  /\ toolPhase = "ready"

Generate(random, order) ==
  /\ toolPhase = "ready"
  /\ genOutcome' = generate(genOptions, random, order)
  /\ toolPhase' = "done"
  /\ UNCHANGED <<genOptions, strPassword, strOutcome, cipherVars, vaultVars, pageVars,
                 flowVars>>

NextGenerator ==
  \E random \in [1 .. DrawCount(genOptions) -> Draws] :
    \E order \in Permutations(1 .. DrawCount(genOptions)) :
      Generate(random, order)

SpecGenerator == InitGenerator /\ [][NextGenerator]_vars

Has(str, class) == \E i \in 1 .. Len(str) : \E j \in 1 .. Len(class) : str[i] = class[j]

EnabledCount(options) == Len(SelectedTypes(options))

\* A valid policy: at least one class, and room for one character of each.
ValidPolicy(options) ==
  EnabledCount(options) >= 1 /\ options.length >= EnabledCount(options)

HasEveryEnabledClass(options, str) ==
  \A i \in 1 .. EnabledCount(options) : Has(str, SelectedTypes(options)[i])

\* C12: for every policy with at least one class enabled and a length of at
\* least the number of enabled classes, the generated string holds at least
\* one character of each enabled class.
C12_EveryEnabledClass ==
  (toolPhase = "done" /\ genOptions \in GenOptions /\ ValidPolicy(genOptions)) =>
    /\ genOutcome.ok
    /\ HasEveryEnabledClass(genOptions, genOutcome.value)

C12_Witness ==
  /\ toolPhase = "done"
  /\ genOptions = [length |-> 3, uppercase |-> TRUE, lowercase |-> TRUE,
                   numbers |-> FALSE, symbols |-> TRUE]
  /\ genOutcome = Generated(<<"!", "b", "A">>)

\* C13: with all four class flags false generate fails with the policy
\* error and returns no string, whatever the length.
C13_NoClassIsAnError ==
  (toolPhase = "done" /\ genOptions \in GenOptions /\ EnabledCount(genOptions) = 0) =>
    genOutcome = PolicyError

C13_Witness ==
  /\ toolPhase = "done"
  /\ EnabledCount(genOptions) = 0
  /\ genOptions.length = 2
  /\ genOutcome = PolicyError

\* C14: when the length is smaller than the number of enabled classes
\* generate fails with the policy error and returns no string.
C14_TooShortIsAnError ==
  (toolPhase = "done" /\ genOptions \in GenOptions
     /\ genOptions.length < EnabledCount(genOptions)) =>
    genOutcome = PolicyError

\* C15: for every valid policy the generated string has exactly
\* policy.length characters, each drawn from the union of the enabled
\* classes.
C15_LengthAndAlphabet ==
  (toolPhase = "done" /\ genOptions \in GenOptions /\ ValidPolicy(genOptions)) =>
    /\ genOutcome.ok
    /\ Len(genOutcome.value) = genOptions.length
    /\ \A i \in 1 .. Len(genOutcome.value) : Has(<<genOutcome.value[i]>>, Charset(genOptions))

C15_Witness ==
  /\ toolPhase = "done"
  /\ genOptions = [length |-> 3, uppercase |-> FALSE, lowercase |-> TRUE,
                   numbers |-> TRUE, symbols |-> FALSE]
  /\ genOutcome = Generated(<<"a", "0", "a">>)

\* ======================================================================
\* analyzePasswordStrength
\* ======================================================================
MaxCoreLen == 4

\* The character ranges of the four regular expressions.
LowerRange == {"a", "b", "c", "d", "e", "f", "g", "h", "i", "j", "k", "l", "m",
               "n", "o", "p", "q", "r", "s", "t", "u", "v", "w", "x", "y", "z"}
UpperRange == {"A", "B", "C", "D", "E", "F", "G", "H", "I", "J", "K", "L", "M",
               "N", "O", "P", "Q", "R", "S", "T", "U", "V", "W", "X", "Y", "Z"}
DigitRange == {"0", "1", "2", "3", "4", "5", "6", "7", "8", "9"}

\* /[...]/.test(password) and /[^...]/.test(password)
Test(range, password)    == \E i \in 1 .. Len(password) : password[i] \in range
TestNot(range, password) == \E i \in 1 .. Len(password) : password[i] \notin range

Strength(score, label, color) == [score |-> score, label |-> label, color |-> color]

analyzePasswordStrengthStrongAt4(password) ==
  LET score == (IF Len(password) >= 8 THEN 1 ELSE 0)
                 + (IF Len(password) >= 12 THEN 1 ELSE 0)
                 + (IF Test(LowerRange, password) THEN 1 ELSE 0)
                 + (IF Test(UpperRange, password) THEN 1 ELSE 0)
                 + (IF Test(DigitRange, password) THEN 1 ELSE 0)
                 + (IF TestNot(LowerRange \cup UpperRange \cup DigitRange, password) THEN 1 ELSE 0)
  IN  IF score <= 2 THEN Strength(score, "Weak", "bg-red-500")
      ELSE IF score <= 3 THEN Strength(score, "Moderate", "bg-yellow-500")
      ELSE Strength(score, "Strong", "bg-accent")

analyzePasswordStrengthOver8(password) ==
  LET score == (IF Len(password) > 8 THEN 1 ELSE 0)
                 + (IF Len(password) >= 12 THEN 1 ELSE 0)
                 + (IF Test(LowerRange, password) THEN 1 ELSE 0)
                 + (IF Test(UpperRange, password) THEN 1 ELSE 0)
                 + (IF Test(DigitRange, password) THEN 1 ELSE 0)
                 + (IF TestNot(LowerRange \cup UpperRange \cup DigitRange, password) THEN 1 ELSE 0)
  IN  IF score <= 2 THEN Strength(score, "Weak", "bg-red-500")
      ELSE IF score <= 4 THEN Strength(score, "Moderate", "bg-yellow-500")
      ELSE Strength(score, "Strong", "bg-accent")

analyzePasswordStrength(password) ==
  LET s1 == IF Len(password) >= 8 THEN 1 ELSE 0
      s2 == s1 + (IF Len(password) >= 12 THEN 1 ELSE 0)
      s3 == s2 + (IF Test(LowerRange, password) THEN 1 ELSE 0)
      s4 == s3 + (IF Test(UpperRange, password) THEN 1 ELSE 0)
      s5 == s4 + (IF Test(DigitRange, password) THEN 1 ELSE 0)
      score == s5 + (IF TestNot(UpperRange \cup LowerRange \cup DigitRange, password)
                     THEN 1 ELSE 0)
  IN  IF score <= 2 THEN Strength(score, "Weak", "bg-red-500")
      ELSE IF score <= 4 THEN Strength(score, "Moderate", "bg-yellow-500")
      ELSE Strength(score, "Strong", "bg-accent")

\* The analysed passwords: every short string over one character of each
\* kind, as it is or with its last character repeated up to the lengths
\* around the two thresholds, and the two examples of the documentation.
StrengthChars == {"a", "Z", "0", "!"}
StretchTo     == {0, 7, 8, 9, 11, 12}
Stretch(core, n) ==
  IF core = <<>> \/ n <= Len(core) THEN core
  ELSE core \o Repeat(core[Len(core)], n - Len(core))
ExampleWeak   == <<"a", "b", "c">>
ExampleStrong == <<"P", "a", "s", "s", "w", "0", "r", "d", "!", "1", "2", "3">>
StrengthInputs ==
  {Stretch(core, n) : core \in StringsUpTo(StrengthChars, MaxCoreLen), n \in StretchTo}
    \cup {ExampleWeak, ExampleStrong}

InitStrength ==
  /\ CipherIdle /\ VaultIdle /\ PageIdle /\ FlowIdle
  /\ genOptions = None
  /\ genOutcome = None
  /\ strPassword \in StrengthInputs
  /\ strOutcome = None
  /\ toolPhase = "ready"

Analyze ==
  /\ toolPhase = "ready"
  /\ strOutcome' = analyzePasswordStrength(strPassword)
  /\ toolPhase' = "analyzed"
  /\ UNCHANGED <<genOptions, genOutcome, strPassword, cipherVars, vaultVars, pageVars,
                 flowVars>>

NextStrength == Analyze

SpecStrength == InitStrength /\ [][NextStrength]_vars

\* The six conditions of the scoring, each on its own.
Conditions(s) ==
  <<Len(s) >= 8,
    Len(s) >= 12,
    \E i \in 1 .. Len(s) : s[i] \in LowerRange,
    \E i \in 1 .. Len(s) : s[i] \in UpperRange,
    \E i \in 1 .. Len(s) : s[i] \in DigitRange,
    \E i \in 1 .. Len(s) : s[i] \notin (LowerRange \cup UpperRange \cup DigitRange)>>

\* C16: the score is the number of the six conditions that hold for s
\* (length >= 8, length >= 12, a lowercase letter, an uppercase letter, a
\* digit, a non-alphanumeric character) and lies in 0..6; the label is Weak
\* for 0-2, Moderate for 3-4, Strong for 5-6; "abc" gives 1 / Weak and
\* "Passw0rd!123" gives 6 / Strong.
C16_ScoreCountsConditions ==
  toolPhase = "analyzed" =>
    /\ strOutcome.score = Cardinality({k \in 1 .. 6 : Conditions(strPassword)[k]})
    /\ strOutcome.score \in 0 .. 6
    /\ strOutcome.score \in 0 .. 2 => strOutcome.label = "Weak"
    /\ strOutcome.score \in 3 .. 4 => strOutcome.label = "Moderate"
    /\ strOutcome.score \in 5 .. 6 => strOutcome.label = "Strong"
    /\ strPassword = ExampleWeak =>
         strOutcome.score = 1 /\ strOutcome.label = "Weak"
    /\ strPassword = ExampleStrong =>
         strOutcome.score = 6 /\ strOutcome.label = "Strong"

C16_Witness ==
  /\ toolPhase = "analyzed"
  /\ strPassword = <<"Z", "a", "0", "0", "0", "0", "0", "0">>
  /\ strOutcome.score = 4
  /\ strOutcome.label = "Moderate"

\* ======================================================================
\* The paths that derive or use the master key: credential modal (save,
\* edit), credential card (copy), import and export.
\* ======================================================================

\* storage.updateCredential and storage.deleteCredential
updateCredential(creds, id, userId, updates) ==
  {IF c.id = id /\ c.userId = userId
   THEN [f \in DOMAIN c |-> IF f \in DOMAIN updates THEN updates[f] ELSE c[f]]
   ELSE c : c \in creds}

deleteCredentialAnyUser(creds, id, userId) == {c \in creds : c.id # id}

deleteCredential(creds, id, userId) == {c \in creds : ~(c.id = id /\ c.userId = userId)}

\* clientPassword when the page holds no account password: user.password
\* is undefined.
Unheld == <<-1>>

OrEmptyDropsPassword(password) == <<>>

\* `user.password || ""` of the modal and the card.
OrEmpty(password) == IF password = <<>> \/ password = Unheld THEN <<>> ELSE password

\* masterKey of useAuth(): the key of the session's username and the
\* password typed at login or registration.
useAuthMasterKey(user, password) == generateMasterKey(user.username, password)

\* credential-modal: the effect that opens a credential for editing.
EditOpen(cred, rnd) ==
  /\ sessionUser # 0
  /\ cred \in getCredentials(credentials, sessionUser)
  /\ LET user      == users[sessionUser]
         masterKey == generateMasterKey(user.username, OrEmpty(clientPassword))
     IN  last' = Answer("edit", 0, "", user.username, <<>>, cred.id,
                        decrypt(cred.encryptedPassword, masterKey, rnd))
  /\ UNCHANGED <<users, credentials, nextCredId, sessionUser, clientPassword, issued,
                 resetCount, sealedWith, cipherVars, restVars>>

\* credential-modal saveMutation on an existing credential, and the
\* PUT /api/credentials/:id it sends.
EditSave(cred, password, salt) ==
  /\ sessionUser # 0
  /\ cred \in getCredentials(credentials, sessionUser)
  /\ LET user              == users[sessionUser]
         masterKey         == generateMasterKey(user.username, OrEmpty(clientPassword))
         encryptedPassword == encrypt(password, masterKey, salt)
     IN  /\ credentials' = updateCredential(credentials, cred.id, sessionUser,
                                            [encryptedPassword |-> encryptedPassword])
         /\ sealedWith' = [sealedWith EXCEPT ![cred.id] =
                             [password |-> clientPassword, resets |-> resetCount[sessionUser],
                              plain |-> password, by |-> "modal"]]
         /\ last' = Answer("update", 200, "", user.username, <<>>, cred.id, NoResult)
  /\ UNCHANGED <<users, nextCredId, sessionUser, clientPassword, issued, resetCount,
                 cipherVars, restVars>>

\* import-export-modal handleImport for a file of one valid record, and the
\* POST /api/credentials it sends.
ImportCredential(password, salt) ==
  /\ sessionUser # 0
  /\ nextCredId < MaxCreds
  /\ LET user              == users[sessionUser]
         masterKey         == useAuthMasterKey(user, clientPassword)
         encryptedPassword == encrypt(password, masterKey, salt)
     IN  /\ credentials' = createCredential(credentials, nextCredId + 1,
                             [userId |-> sessionUser, encryptedPassword |-> encryptedPassword])
         /\ sealedWith' = Append(sealedWith, [password |-> clientPassword,
                                              resets |-> resetCount[sessionUser],
                                              plain |-> password, by |-> "import"])
         /\ last' = Answer("import", 201, "", user.username, <<>>, nextCredId + 1, NoResult)
  /\ nextCredId' = nextCredId + 1
  /\ UNCHANGED <<users, sessionUser, clientPassword, issued, resetCount, cipherVars, restVars>>

\* import-export-modal exportMutation: every credential of the session is
\* opened; the ones that fail are left out and reported.
ExportCredentials(rnd) ==
  /\ sessionUser # 0
  /\ LET user      == users[sessionUser]
         masterKey == useAuthMasterKey(user, clientPassword)
         opens     == {<<c.id, decrypt(c.encryptedPassword, masterKey, rnd)>> :
                         c \in getCredentials(credentials, sessionUser)}
     IN  last' = Answer("export", 0, "", user.username, <<>>, 0,
                        [ok |-> \A o \in opens : o[2].ok,
                         value |-> {o \in opens : o[2].ok}])
  /\ UNCHANGED <<users, credentials, nextCredId, sessionUser, clientPassword, issued,
                 resetCount, sealedWith, cipherVars, restVars>>

\* DELETE /api/credentials/:id from the card.
DeleteCredential(cred) ==
  /\ sessionUser # 0
  /\ cred \in getCredentials(credentials, sessionUser)
  /\ credentials' = deleteCredential(credentials, cred.id, sessionUser)
  /\ last' = Answer("delete", 204, "", users[sessionUser].username, <<>>, cred.id, NoResult)
  /\ UNCHANGED <<users, nextCredId, sessionUser, clientPassword, issued, resetCount,
                 sealedWith, cipherVars, restVars>>

\* The registration form takes any two strings, the empty ones too; the
\* login form asks for one character at least.
KeyUsernames == {<<>>, <<1>>}
KeyPasswords == {<<>>, <<2, 1>>}

NextKeys ==
  \/ \E u \in KeyUsernames, p \in KeyPasswords, k \in VaultPhrases, s \in HashSalts :
       Register(u, p, k, s)
  \/ \E u \in Usernames, p \in Passwords : Login(u, p)
  \/ Logout
  \/ \E p \in VaultPlaintexts, salt \in VaultSalts : SaveCredential(p, salt)
  \/ \E c \in credentials, rnd \in VaultSalts : EditOpen(c, rnd)
  \/ \E c \in credentials, p \in VaultPlaintexts, salt \in VaultSalts : EditSave(c, p, salt)
  \/ \E c \in credentials, rnd \in VaultSalts : CopyPassword(c, rnd)
  \/ \E p \in VaultPlaintexts, salt \in VaultSalts : ImportCredential(p, salt)
  \/ \E rnd \in VaultSalts : ExportCredentials(rnd)
  \/ \E c \in credentials : DeleteCredential(c)

SpecKeys == InitVault /\ [][NextKeys]_vars

\* C17: no path derives a key from an empty username or an empty account
\* password: save, edit and copy end in an error instead.
C17_EmptyInputRejected ==
  (/\ last.route \in {"save", "update", "copy", "edit"}
   /\ sessionUser # 0
   /\ (users[sessionUser].username = <<>> \/ clientPassword = <<>>))
    => (last.status \notin {200, 201} /\ ~last.result.ok)

MaxSeals == 2

\* Each call draws its own salt.
SealAgain(salt) ==
  /\ phase = "plain"
  /\ Len(sealedBlobs) < MaxSeals
  /\ sealedBlobs' = Append(sealedBlobs,
                           encrypt(plaintext, generateMasterKey(sealUser, sealPass), salt))
  /\ UNCHANGED <<plaintext, sealUser, sealPass, blob, tampered, openUser, openPass, opened,
                 phase, openedBlobs, vaultVars, restVars>>

\* Every blob is opened under the sealing key.
OpenEach(rnd) ==
  /\ phase = "plain"
  /\ sealedBlobs # <<>>
  /\ openedBlobs' = [i \in 1 .. Len(sealedBlobs) |->
                       decrypt(sealedBlobs[i], generateMasterKey(sealUser, sealPass), rnd)]
  /\ phase' = "reopened"
  /\ UNCHANGED <<plaintext, sealUser, sealPass, blob, tampered, openUser, openPass, opened,
                 sealedBlobs, vaultVars, restVars>>

NextReseal ==
  \/ \E salt \in Bytes : SealAgain(salt)
  \/ \E rnd \in Bytes : OpenEach(rnd)

SpecReseal == InitCipher /\ [][NextReseal]_vars

\* C19: two calls of encrypt on the same plaintext under the same key never
\* return the same blob, and each blob opens to the plaintext under the key.
C19_FreshBlobEachCall ==
  /\ \A i, j \in 1 .. Len(sealedBlobs) : i # j => sealedBlobs[i] # sealedBlobs[j]
  /\ phase = "reopened" =>
       \A i \in 1 .. Len(openedBlobs) : openedBlobs[i] = Decrypted(plaintext)

\* ======================================================================
\* Every route of the server, on one account.
\* ======================================================================
NextServer ==
  \/ \E u \in VaultUsernames, p \in Passwords, k \in VaultPhrases, s \in HashSalts :
       Register(u, p, k, s)
  \/ \E u \in Usernames, p \in Passwords : Login(u, p)
  \/ Logout
  \/ \E p \in VaultPlaintexts, salt \in HashSalts : SaveCredential(p, salt)
  \/ \E c \in credentials, p \in VaultPlaintexts, salt \in HashSalts : EditSave(c, p, salt)
  \/ \E c \in credentials : DeleteCredential(c)
  \/ \E u \in Usernames, k \in Phrases : ValidateRecoveryKey(u, k)
  \/ \E u \in Usernames, k \in Phrases, p \in Passwords, s \in HashSalts :
       ResetPassword(u, k, p, s)

SpecServer == InitVault /\ [][NextServer]_vars

\* C20: an account's stored password hash changes only in a step that is a
\* successful recovery reset of that account; no credential route and no
\* failed request changes it, and no step removes an account.
C20_HashChangesOnlyOnReset ==
  [][/\ Len(users') >= Len(users)
     /\ \A i \in 1 .. Len(users) :
          /\ users'[i].id = users[i].id
          /\ users'[i].username = users[i].username
          /\ users'[i].password # users[i].password =>
               /\ last'.route = "reset"
               /\ last'.status = 200
               /\ last'.username = users[i].username]_vars

C20_Witness ==
  /\ last.route = "reset"
  /\ last.status = 200
  /\ Len(users) = 1
  /\ resetCount[1] = 1
  /\ sealedWith # <<>>
  /\ sealedWith[1].resets = 0
  /\ sealedWith[1].password = <<1>>
  /\ users[1].password = hashPassword(<<2, 1>>, 0)

\* ======================================================================
\* /api/reset-password requests running side by side.  A request reads the
\* account row, compares the phrase with the row it read, hashes the new
\* password and writes it; other requests run between these awaits.
\* ======================================================================
MaxRequests == 2

RaceSalts == {1, 2}

Request(pc, username, key, newPassword, salt, row) ==
  [pc |-> pc, username |-> username, key |-> key, newPassword |-> newPassword,
   salt |-> salt, row |-> row]

\* The request arrives: req.body is read.
ResetBegin(username, recoveryKey, newPassword, salt) ==
  /\ Len(resets) < MaxRequests
  /\ resets' = Append(resets, Request("begun", username, recoveryKey, newPassword, salt, NoUser))
  /\ UNCHANGED <<cipherVars, vaultVars, pageVars, toolVars, clientVars>>

\* storage.verifyRecoveryKey, first await: getUserByUsername.
ResetRead(r) ==
  /\ resets[r].pc = "begun"
  /\ resets' = [resets EXCEPT ![r].pc = "read",
                              ![r].row = getUserByUsername(users, resets[r].username)]
  /\ UNCHANGED <<cipherVars, vaultVars, pageVars, toolVars, clientVars>>

\* storage.verifyRecoveryKey, second await: compareRecoveryKeys on the row
\* that was read; without a user the route answers 400.
ResetCompare(r) ==
  /\ resets[r].pc = "read"
  /\ LET row   == resets[r].row
         valid == row.id # 0 /\ compareRecoveryKeys(resets[r].key, row.recoveryKey)
     IN  IF valid
         THEN /\ resets' = [resets EXCEPT ![r].pc = "verified"]
              /\ UNCHANGED last
         ELSE /\ resets' = [resets EXCEPT ![r].pc = "refused"]
              /\ last' = Answer("reset", 400, "Invalid username or recovery key",
                                resets[r].username, resets[r].key, 0, NoResult)
  /\ UNCHANGED <<users, credentials, nextCredId, sessionUser, clientPassword, issued,
                 resetCount, sealedWith, cipherVars, pageVars, toolVars, clientVars>>

\* hashPassword(newPassword), then storage.updateUserPassword(user.id, ...)
\* and the 200 answer.
ResetUpdate(r) ==
  /\ resets[r].pc = "verified"
  /\ users' = updateUserPassword(users, resets[r].row.id,
                                 hashPassword(resets[r].newPassword, resets[r].salt))
  /\ resetCount' = [resetCount EXCEPT ![resets[r].row.id] = @ + 1]
  /\ resets' = [resets EXCEPT ![r].pc = "answered"]
  /\ last' = Answer("reset", 200, "Password reset successfully",
                    resets[r].username, resets[r].key, 0, NoResult)
  /\ UNCHANGED <<credentials, nextCredId, sessionUser, clientPassword, issued,
                 sealedWith, cipherVars, pageVars, toolVars, clientVars>>

NextRace ==
  \/ \E u \in VaultUsernames, k \in VaultPhrases, s \in HashSalts :
       Register(u, RecoveryPassword, k, s)
  \/ \E u \in VaultUsernames, k \in Phrases, p \in Passwords, s \in RaceSalts :
       ResetBegin(u, k, p, s)
  \/ \E r \in 1 .. Len(resets) : ResetRead(r)
  \/ \E r \in 1 .. Len(resets) : ResetCompare(r)
  \/ \E r \in 1 .. Len(resets) : ResetUpdate(r)

SpecRace == InitVault /\ [][NextRace]_vars

Answered == {r \in 1 .. Len(resets) : resets[r].pc = "answered"}
Settled  == \A r \in 1 .. Len(resets) : resets[r].pc \in {"answered", "refused"}

\* C21: when the concurrent resets of one account have all completed, the
\* stored password hash is the hash one of the accepted requests wrote,
\* whole, and the stored recovery verifier is the one of the registration.
C21_OneOfTheNewHashes ==
  (Settled /\ Answered # {}) =>
    /\ \E r \in Answered :
         users[1].password = hashPassword(resets[r].newPassword, resets[r].salt)
    /\ \E s \in HashSalts : users[1].recoveryKey = hashRecoveryKey(issued[1], s)

C21_Witness ==
  /\ Len(resets) = 2
  /\ Answered = {1, 2}
  /\ resets[1].newPassword = <<1>> /\ resets[1].salt = 1
  /\ resets[2].newPassword = <<2, 1>> /\ resets[2].salt = 2
  /\ users[1].password = hashPassword(<<1>>, 1)
  /\ resetCount[1] = 2

\* ======================================================================
\* HomePage: the credential modal with its form, the cards and the export,
\* as the user sees them.  The modal stays mounted while HomePage is, so
\* its form lives from one opening to the next.
\* ======================================================================
MaxRows == 2

\* The characters that start a spreadsheet formula ('=', '+', '-', '@') and
\* the single quote, among the one-byte characters.
FormulaChars == {2}
QuoteChar    == 3

sanitizeNothing(value) == value

sanitizeForCSV(value) ==
  IF value = <<>> THEN value
  ELSE IF value[1] \in FormulaChars THEN <<QuoteChar>> \o value
  ELSE value

beyondClient == <<cipherVars, pageVars, toolVars, raceVars>>

\* react-hook-form: reset(values) takes values as the form's values and as
\* its new default values; reset() goes back to the default values.
FormReset(values) == [values |-> values, defaults |-> values]

\* handleLogout: the session ends and HomePage, with the modal, unmounts.
HomeLogout ==
  /\ sessionUser # 0
  /\ sessionUser' = 0
  /\ clientPassword' = <<>>
  /\ last' = Answer("logout", 200, "", <<>>, <<>>, 0, NoResult)
  /\ editing' = 0
  /\ form' = BlankForm
  /\ formDefaults' = BlankForm
  /\ notice' = ""
  /\ importFile' = NoChoice
  /\ importResult' = NoImport
  /\ UNCHANGED <<users, credentials, nextCredId, issued, resetCount, sealedWith,
                 clipboard, exportFile, posted, beyondClient>>

\* "Add credential": the modal opens without a credential and its effect
\* resets the form to the empty values.
ModalOpenAdd ==
  /\ sessionUser # 0
  /\ editing = 0
  /\ nextCredId < MaxRows
  /\ editing' = -1
  /\ form' = FormReset(BlankForm).values
  /\ formDefaults' = FormReset(BlankForm).defaults
  /\ notice' = ""
  /\ last' = Answer("add", 0, "", users[sessionUser].username, <<>>, 0, NoResult)
  /\ UNCHANGED <<users, credentials, nextCredId, sessionUser, clientPassword, issued,
                 resetCount, sealedWith, clipboard, exportFile, importVars, beyondClient>>

\* handleEditCredential and the modal's effect: the password is opened and
\* the form reset to the credential; when decrypt throws, a toast is shown
\* and the form is left as it is.
ModalOpenEdit(cred, rnd) ==
  /\ sessionUser # 0
  /\ editing = 0
  /\ cred \in getCredentials(credentials, sessionUser)
  /\ LET user      == users[sessionUser]
         masterKey == generateMasterKey(user.username, OrEmpty(clientPassword))
         result    == decrypt(cred.encryptedPassword, masterKey, rnd)
         loaded    == [owner |-> cred.id, password |-> result.value]
     IN  /\ form' = IF result.ok THEN FormReset(loaded).values ELSE form
         /\ formDefaults' = IF result.ok THEN FormReset(loaded).defaults ELSE formDefaults
         /\ notice' = IF result.ok THEN "" ELSE "Failed to decrypt"
         /\ last' = Answer("edit", 0, "", user.username, <<>>, cred.id, result)
  /\ editing' = cred.id
  /\ UNCHANGED <<users, credentials, nextCredId, sessionUser, clientPassword, issued,
                 resetCount, sealedWith, clipboard, exportFile, importVars, beyondClient>>

\* The user types in the password field.
ModalType(password) ==
  /\ editing # 0
  /\ form.password # password
  /\ form' = [form EXCEPT !.password = password]
  /\ notice' = ""
  /\ last' = Answer("type", 0, "", users[sessionUser].username, <<>>, 0, NoResult)
  /\ UNCHANGED <<users, credentials, nextCredId, sessionUser, clientPassword, issued,
                 resetCount, sealedWith, editing, formDefaults, clipboard, exportFile,
                 importVars, beyondClient>>

\* handleClose: form.reset() and onClose.
ModalClose ==
  /\ editing # 0
  /\ editing' = 0
  /\ form' = formDefaults
  /\ notice' = ""
  /\ last' = Answer("close", 0, "", users[sessionUser].username, <<>>, 0, NoResult)
  /\ UNCHANGED <<users, credentials, nextCredId, sessionUser, clientPassword, issued,
                 resetCount, sealedWith, formDefaults, clipboard, exportFile,
                 importVars, beyondClient>>

\* onSubmit: the form passes credentialSchema, saveMutation seals the
\* password field and sends POST or PUT; onSuccess shows a toast and closes.
ModalSubmit(salt) ==
  /\ editing # 0
  /\ form.password # <<>>
  /\ LET user              == users[sessionUser]
         masterKey         == generateMasterKey(user.username, OrEmpty(clientPassword))
         encryptedPassword == encrypt(form.password, masterKey, salt)
         sealing           == [password |-> clientPassword, resets |-> resetCount[sessionUser],
                               plain |-> form.password, by |-> "modal"]
     IN  IF editing = -1
         THEN /\ credentials' = createCredential(credentials, nextCredId + 1,
                                  [userId |-> sessionUser,
                                   encryptedPassword |-> encryptedPassword])
              /\ nextCredId' = nextCredId + 1
              /\ sealedWith' = Append(sealedWith, sealing)
              /\ notice' = "Credential saved"
              /\ last' = Answer("save", 201, "", user.username, <<>>, nextCredId + 1, NoResult)
         ELSE /\ credentials' = updateCredential(credentials, editing, sessionUser,
                                  [encryptedPassword |-> encryptedPassword])
              /\ nextCredId' = nextCredId
              /\ sealedWith' = [sealedWith EXCEPT ![editing] = sealing]
              /\ notice' = "Credential updated"
              /\ last' = Answer("update", 200, "", user.username, <<>>, editing, NoResult)
  /\ editing' = 0
  /\ form' = formDefaults
  /\ UNCHANGED <<users, sessionUser, clientPassword, issued, resetCount, formDefaults,
                 clipboard, exportFile, importVars, beyondClient>>

\* credential-card copyPassword with copyToClipboard.
CardCopyPassword(cred, rnd) ==
  /\ sessionUser # 0
  /\ editing = 0
  /\ cred \in getCredentials(credentials, sessionUser)
  /\ LET user      == users[sessionUser]
         masterKey == generateMasterKey(user.username, OrEmpty(clientPassword))
         result    == decrypt(cred.encryptedPassword, masterKey, rnd)
     IN  /\ clipboard' = IF result.ok THEN Text(result.value) ELSE clipboard
         /\ notice' = IF result.ok THEN "Copied to clipboard" ELSE "Failed to decrypt"
         /\ last' = Answer("copy", 0, "", user.username, <<>>, cred.id, result)
  /\ UNCHANGED <<users, credentials, nextCredId, sessionUser, clientPassword, issued,
                 resetCount, sealedWith, editing, form, formDefaults, exportFile,
                 importVars, beyondClient>>

\* masterKey of useAuth() as the import/export modal reads it: null when
\* the page holds no account password.
NoKey == [held |-> FALSE, key |-> 0]
HookKey ==
  IF sessionUser = 0 \/ clientPassword = Unheld THEN NoKey
  ELSE [held |-> TRUE, key |-> useAuthMasterKey(users[sessionUser], clientPassword)]

ExportRecord(id, password) == [id |-> id, password |-> password]

\* exportMutation: mutationFn with onSuccess or onError.
ExportFile(format, rnd) ==
  /\ sessionUser # 0
  /\ editing = 0
  /\ IF ~HookKey.held
     THEN /\ notice' = "Export failed"
          /\ exportFile' = NoFile
          /\ last' = Answer("export", 0, "User not authenticated or master key not available",
                            users[sessionUser].username, <<>>, 0, NoResult)
     ELSE LET mine   == getCredentials(credentials, sessionUser)
              opens  == [c \in mine |-> decrypt(c.encryptedPassword, HookKey.key, rnd)]
              readable == {c \in mine : opens[c].ok}
          IN  /\ exportFile' = [written |-> TRUE, format |-> format,
                                records |-> {ExportRecord(c.id, sanitizeForCSV(opens[c].value)) :
                                               c \in readable},
                                errors |-> {c.id : c \in mine \ readable}]
              /\ notice' = "Export successful"
              /\ last' = Answer("export", 0, "", users[sessionUser].username, <<>>, 0,
                                [ok |-> readable = mine, value |-> <<>>])
  /\ UNCHANGED <<users, credentials, nextCredId, sessionUser, clientPassword, issued,
                 resetCount, sealedWith, editing, form, formDefaults, clipboard,
                 importVars, beyondClient>>

ModalSalts == {0}

\* The account is registered with one password and reset to another.
ModalPassword    == <<1>>
ModalNewPassword == <<2, 1>>

NextModal ==
  \/ \E u \in VaultUsernames, k \in VaultPhrases, s \in HashSalts :
       Register(u, ModalPassword, k, s)
  \/ \E u \in VaultUsernames, p \in {ModalPassword, ModalNewPassword} : Login(u, p)
  \/ HomeLogout
  \/ \E u \in VaultUsernames, k \in VaultPhrases, s \in HashSalts :
       sessionUser = 0 /\ ResetPassword(u, k, ModalNewPassword, s)
  \/ ModalOpenAdd
  \/ \E c \in credentials, rnd \in ModalSalts : ModalOpenEdit(c, rnd)
  \/ \E p \in VaultPlaintexts : ModalType(p)
  \/ ModalClose
  \/ \E salt \in ModalSalts : ModalSubmit(salt)
  \/ \E c \in credentials, rnd \in ModalSalts : CardCopyPassword(c, rnd)
  \/ \E rnd \in ModalSalts : ExportFile("json", rnd)

SpecModal == InitVault /\ [][NextModal]_vars

\* C22: when decrypt raises its error no path yields a plaintext for the
\* record: a failed copy leaves the clipboard as it was, a failed opening
\* for editing leaves the modal without a password, an export leaves the
\* record out, and each reports the failure.
C22_FailClosed ==
  [][/\ (last'.route = "copy" /\ ~last'.result.ok) =>
          (clipboard' = clipboard /\ notice' = "Failed to decrypt")
     /\ (last'.route = "edit" /\ ~last'.result.ok) =>
          (form'.password = <<>> /\ notice' = "Failed to decrypt")
     /\ (last'.route = "export" /\ exportFile'.written) =>
          \A c \in getCredentials(credentials', sessionUser') :
            IF decrypt(c.encryptedPassword, HookKey'.key, 0).ok
            THEN c.id \notin exportFile'.errors
            ELSE /\ c.id \in exportFile'.errors
                 /\ \A x \in exportFile'.records : x.id # c.id]_vars

\* ======================================================================
\* ImportExportModal: the import of a file of records, the export, and the
\* requests they send.
\* ======================================================================
\* An element of the parsed file: JSON null, or an object whose password
\* field is a string.  origin is the credential an exported record came
\* from, 0 for a record written by hand.
NullRecord == [object |-> FALSE, password |-> <<>>, origin |-> 0]
FileRecord(password, origin) == [object |-> TRUE, password |-> password, origin |-> origin]

\* The schema of handleImport: the password is a string of one character
\* at least.
ValidRecord(cred) == cred.password # <<>>

importBodyPlain(cred, masterKey, salt) == [encryptedPassword |-> cred.password]

\* The body of the POST /api/credentials of one valid record.
importBody(cred, masterKey, salt) ==
  [encryptedPassword |-> encrypt(cred.password, masterKey, salt)]

ImportRun(creds, next) ==
  [creds |-> creds, next |-> next, successful |-> 0, failed |-> 0, errors |-> <<>>,
   posted |-> <<>>, seals |-> <<>>, thrown |-> FALSE]

\* The loop of handleImport from record i on.  A record that is not an
\* object throws at cred.name in the try block and again at cred.name in
\* its catch block, which ends the loop.
RECURSIVE importRecords(_, _, _, _, _, _, _)
importRecords(run, file, i, userId, masterKey, salts, rejected) ==
  IF i > Len(file) \/ run.thrown THEN run
  ELSE LET cred == file[i]
       IN  IF ~cred.object
           THEN importRecords([run EXCEPT !.failed = @ + 1, !.thrown = TRUE],
                              file, i + 1, userId, masterKey, salts, rejected)
           ELSE IF ~ValidRecord(cred)
           THEN importRecords([run EXCEPT !.failed = @ + 1, !.errors = Append(@, i)],
                              file, i + 1, userId, masterKey, salts, rejected)
           ELSE LET body == importBody(cred, masterKey, salts[i])
                IN  IF i \in rejected
                    THEN importRecords(
                           [run EXCEPT !.failed = @ + 1, !.errors = Append(@, i),
                                       !.posted = Append(@, [record |-> i, body |-> body,
                                                              accepted |-> FALSE, id |-> 0])],
                           file, i + 1, userId, masterKey, salts, rejected)
                    ELSE importRecords(
                           [run EXCEPT !.successful = @ + 1,
                                       !.creds = createCredential(@, run.next + 1,
                                                   [userId |-> userId,
                                                    encryptedPassword |-> body.encryptedPassword]),
                                       !.next = @ + 1,
                                       !.seals = Append(@, cred.password),
                                       !.posted = Append(@, [record |-> i, body |-> body,
                                                              accepted |-> TRUE,
                                                              id |-> run.next + 1])],
                           file, i + 1, userId, masterKey, salts, rejected)

\* The page is loaded again within the session: the session cookie still
\* names the user, the account password typed at login is gone.
Reload ==
  /\ sessionUser # 0
  /\ clientPassword' = Unheld
  /\ editing' = 0
  /\ form' = BlankForm
  /\ formDefaults' = BlankForm
  /\ notice' = ""
  /\ importFile' = NoChoice
  /\ importResult' = NoImport
  /\ last' = Answer("reload", 200, "", users[sessionUser].username, <<>>, 0, NoResult)
  /\ UNCHANGED <<users, credentials, nextCredId, sessionUser, issued, resetCount, sealedWith,
                 clipboard, exportFile, posted, beyondClient>>

\* handleFileChange with a file whose text parses to these records.
ChooseFile(records) ==
  /\ sessionUser # 0
  /\ editing = 0
  /\ importFile' = [chosen |-> TRUE, records |-> records]
  /\ importResult' = NoImport
  /\ posted' = <<>>
  /\ notice' = ""
  /\ last' = Answer("file", 0, "", users[sessionUser].username, <<>>, 0, NoResult)
  /\ UNCHANGED <<users, credentials, nextCredId, sessionUser, clientPassword, issued,
                 resetCount, sealedWith, editing, form, formDefaults, clipboard, exportFile,
                 beyondClient>>

RECURSIVE ById(_)
ById(records) ==
  IF records = {} THEN <<>>
  ELSE LET first == CHOOSE x \in records : \A y \in records : x.id <= y.id
       IN  <<FileRecord(first.password, first.id)>> \o ById(records \ {first})

\* handleFileChange with the file the last export wrote.
ChooseExported ==
  /\ exportFile.written
  /\ exportFile.records # {}
  /\ ChooseFile(ById(exportFile.records))

\* handleImport.
ImportFile(salts, rejected) ==
  /\ sessionUser # 0
  /\ editing = 0
  /\ nextCredId + Len(importFile.records) <= MaxRows
  /\ IF ~importFile.chosen \/ ~HookKey.held
     THEN /\ notice' = "Import failed"
          /\ posted' = <<>>
          /\ last' = Answer("import", 0, "Authentication or master key not available. Please log out and log back in.",
                            users[sessionUser].username, <<>>, 0, NoResult)
          /\ UNCHANGED <<credentials, nextCredId, sealedWith, importResult>>
     ELSE LET run == importRecords(ImportRun(credentials, nextCredId), importFile.records, 1,
                                   sessionUser, HookKey.key, salts, rejected)
          IN  /\ credentials' = run.creds
              /\ nextCredId' = run.next
              /\ sealedWith' = sealedWith \o
                   [j \in 1 .. Len(run.seals) |->
                      [password |-> clientPassword, resets |-> resetCount[sessionUser],
                       plain |-> run.seals[j], by |-> "import"]]
              /\ posted' = run.posted
              /\ importResult' =
                   IF run.thrown THEN NoImport
                   ELSE [set |-> TRUE, successful |-> run.successful, failed |-> run.failed,
                         errors |-> run.errors]
              /\ notice' = IF run.thrown THEN "Import failed"
                           ELSE IF run.successful > 0 THEN "Import completed" ELSE ""
              /\ last' = Answer("import", 0, "", users[sessionUser].username, <<>>, 0,
                                [ok |-> ~run.thrown, value |-> <<>>])
  /\ UNCHANGED <<users, sessionUser, clientPassword, issued, resetCount, editing, form,
                 formDefaults, clipboard, exportFile, importFile, beyondClient>>

\* What a file can hold, record by record.
FilePasswords == {<<>>, <<1>>, <<2, 1>>}
FileRecords   == {NullRecord} \cup {FileRecord(p, 0) : p \in FilePasswords}
FileLengths   == {1, 2}
Files         == UNION {[1 .. n -> FileRecords] : n \in FileLengths}

NextTransfer ==
  \/ \E u \in VaultUsernames, k \in VaultPhrases, s \in HashSalts :
       Register(u, ModalPassword, k, s)
  \/ \E u \in VaultUsernames : Login(u, ModalPassword)
  \/ HomeLogout
  \/ Reload
  \/ \E file \in Files : ChooseFile(file)
  \/ ChooseExported
  \/ \E salts \in [FileLengths -> ModalSalts], rejected \in SUBSET FileLengths :
       ImportFile(salts, rejected)
  \/ \E rnd \in ModalSalts : ExportFile("csv", rnd)

SpecTransfer == InitVault /\ [][NextTransfer]_vars

Accepted == {j \in 1 .. Len(posted) : posted[j].accepted}

\* C23: an import that ran displays its result, in which successful and
\* failed add up to the number of records of the file, successful is the
\* number of records the POST accepted and errors has one entry for each
\* failed record; a failing record does not keep the later ones from being
\* processed.
C23_EveryRecordCounted ==
  (last.route = "import" /\ importFile.chosen /\ HookKey.held) =>
    /\ importResult.set
    /\ importResult.successful + importResult.failed = Len(importFile.records)
    /\ importResult.successful = Cardinality(Accepted)
    /\ Len(importResult.errors) = importResult.failed
    /\ \A i \in 1 .. Len(importFile.records) :
         (importFile.records[i].object /\ ValidRecord(importFile.records[i])) =>
           \E j \in 1 .. Len(posted) : posted[j].record = i

\* C24: the export and the import go through the cipher.  Every password
\* an export writes is what decrypt returned without error for that
\* credential under the session's master key; every POST of an import
\* carries encrypt(password, masterKey), which is not the password and
\* opens to it under the master key; without a master key an export writes
\* no file and an import sends no request and stores nothing.
C24_ThroughTheCipher ==
  [][/\ (last'.route = "export") =>
          IF HookKey.held
          THEN \A x \in exportFile'.records :
                 \E c \in getCredentials(credentials, sessionUser) :
                   /\ c.id = x.id
                   /\ decrypt(c.encryptedPassword, HookKey.key, 0).ok
                   /\ x.password =
                        sanitizeForCSV(decrypt(c.encryptedPassword, HookKey.key, 0).value)
          ELSE ~exportFile'.written
     /\ (last'.route = "import") =>
          IF HookKey.held /\ importFile.chosen
          THEN \A j \in 1 .. Len(posted') :
                 LET password == importFile.records[posted'[j].record].password
                     sealed   == posted'[j].body.encryptedPassword
                 IN  /\ \E salt \in ModalSalts : sealed = encrypt(password, HookKey.key, salt)
                     /\ sealed # password
                     /\ decrypt(sealed, HookKey.key, 0) = Decrypted(password)
          ELSE posted' = <<>> /\ credentials' = credentials]_vars

\* An import under the master key of the record an earlier export wrote.
C24_Witness ==
  /\ last.route = "import"
  /\ Len(posted) = 1
  /\ posted[1].accepted
  /\ importFile.records[1].origin = 1
  /\ exportFile.written
  /\ exportFile.records # {}

StartsFormula(value) == value # <<>> /\ value[1] \in FormulaChars
Stored(id) == CHOOSE c \in credentials : c.id = id

ApiBody(kind, encryptedPassword, userId) ==
  [kind |-> kind, encryptedPassword |-> encryptedPassword, userId |-> userId]

Parsed(data) == [ok |-> TRUE, data |-> data]
ZodError     == [ok |-> FALSE, data |-> <<>>]

updateCredentialSchemaKeepsUserId(body) ==
  IF body.kind = "invalid" THEN ZodError
  ELSE IF body.kind = "empty" THEN Parsed(<<>>)
  ELSE IF body.userId = 0 THEN Parsed([encryptedPassword |-> body.encryptedPassword])
  ELSE Parsed([encryptedPassword |-> body.encryptedPassword, userId |-> body.userId])

\* insertCredentialSchema.parse: the picked columns, the required ones
\* present; keys that were not picked are dropped.
insertCredentialSchema(body) ==
  IF body.kind = "full" THEN Parsed([encryptedPassword |-> body.encryptedPassword])
  ELSE ZodError

\* updateCredentialSchema.parse: the same columns, each optional.
updateCredentialSchema(body) ==
  IF body.kind = "invalid" THEN ZodError
  ELSE IF body.kind = "empty" THEN Parsed(<<>>)
  ELSE Parsed([encryptedPassword |-> body.encryptedPassword])

ApiAnswer(route, status, message, id, rows) ==
  Answer(route, status, message, <<>>, <<>>, id, [ok |-> status < 400, value |-> rows])

apiFrame == <<users, sessionUser, clientPassword, issued, resetCount, cipherVars, restVars>>

\* GET /api/credentials
ApiList ==
  /\ IF sessionUser = 0
     THEN last' = ApiAnswer("list", 401, "", 0, {})
     ELSE last' = ApiAnswer("list", 200, "", 0, getCredentials(credentials, sessionUser))
  /\ UNCHANGED <<credentials, nextCredId, sealedWith, apiFrame>>

\* POST /api/credentials
ApiCreate(body) ==
  /\ nextCredId < MaxRows
  /\ IF sessionUser = 0
     THEN /\ last' = ApiAnswer("create", 401, "", 0, {})
          /\ UNCHANGED <<credentials, nextCredId, sealedWith>>
     ELSE LET validatedData == insertCredentialSchema(body)
          IN  IF ~validatedData.ok
              THEN /\ last' = ApiAnswer("create", 400, "Invalid credential data", 0, {})
                   /\ UNCHANGED <<credentials, nextCredId, sealedWith>>
              ELSE /\ credentials' = createCredential(credentials, nextCredId + 1,
                                       [f \in DOMAIN validatedData.data \cup {"userId"} |->
                                          IF f = "userId" THEN sessionUser
                                          ELSE validatedData.data[f]])
                   /\ nextCredId' = nextCredId + 1
                   /\ sealedWith' = Append(sealedWith,
                                      [password |-> clientPassword,
                                       resets |-> resetCount[sessionUser],
                                       plain |-> <<>>, by |-> "api"])
                   /\ last' = ApiAnswer("create", 201, "", nextCredId + 1, {})
  /\ UNCHANGED apiFrame

\* PUT /api/credentials/:id: the answer is 404 when the UPDATE returned no
\* row.
ApiUpdate(id, body) ==
  /\ IF sessionUser = 0
     THEN /\ last' = ApiAnswer("update", 401, "", id, {})
          /\ UNCHANGED credentials
     ELSE LET validatedData == updateCredentialSchema(body)
          IN  IF ~validatedData.ok
              THEN /\ last' = ApiAnswer("update", 400, "Invalid credential data", id, {})
                   /\ UNCHANGED credentials
              ELSE LET updated   == updateCredential(credentials, id, sessionUser,
                                                     validatedData.data)
                       returning == {c \in credentials : c.id = id /\ c.userId = sessionUser}
                   IN  /\ credentials' = updated
                       /\ last' = IF returning = {}
                                  THEN ApiAnswer("update", 404, "Credential not found", id, {})
                                  ELSE ApiAnswer("update", 200, "", id, {})
  /\ UNCHANGED <<nextCredId, sealedWith, apiFrame>>

\* DELETE /api/credentials/:id: the answer is 404 when the DELETE returned
\* no row.
ApiDelete(id) ==
  /\ IF sessionUser = 0
     THEN /\ last' = ApiAnswer("delete", 401, "", id, {})
          /\ UNCHANGED credentials
     ELSE LET remaining == deleteCredential(credentials, id, sessionUser)
          IN  /\ credentials' = remaining
              /\ last' = IF remaining = credentials
                         THEN ApiAnswer("delete", 404, "Credential not found", id, {})
                         ELSE ApiAnswer("delete", 204, "", id, {})
  /\ UNCHANGED <<nextCredId, sealedWith, apiFrame>>

\* Two accounts, and what a client can send.
ApiUsernames == {<<1>>, <<1, 2>>}
ApiBlobs     == {<<1>>, <<2>>}
ApiIds       == 1 .. MaxRows
ApiBodies    ==
  {ApiBody("empty", <<>>, 0), ApiBody("invalid", <<>>, 0)}
    \cup {ApiBody("full", e, u) : e \in ApiBlobs, u \in 0 .. 2}

NextApi ==
  \/ \E u \in ApiUsernames, k \in VaultPhrases, s \in HashSalts :
       Register(u, ModalPassword, k, s)
  \/ \E u \in ApiUsernames : Login(u, ModalPassword)
  \/ Logout
  \/ ApiList
  \/ \E body \in ApiBodies : ApiCreate(body)
  \/ \E id \in ApiIds, body \in ApiBodies : ApiUpdate(id, body)
  \/ \E id \in ApiIds : ApiDelete(id)

SpecApi == InitVault /\ [][NextApi]_vars

Row(creds, id) == CHOOSE c \in creds : c.id = id
Ids(creds)     == {c.id : c \in creds}

\* C25: the rows of one account are out of the other's reach.  A list
\* returns the rows of the session's user and no other; a step that
\* changes or removes a row is a request of the row's user; a request for
\* another user's row is answered 404 (400 when the body is rejected
\* first) and leaves the row alone; a new row carries the session's
\* user id and no row's user id ever changes, whatever the body says.
C25_AccountsApart ==
  [][/\ (last'.route = "list" /\ last'.status = 200) =>
          /\ \A c \in last'.result.value : c.userId = sessionUser
          /\ \A c \in credentials : c.userId = sessionUser => c \in last'.result.value
     /\ \A c \in credentials :
          /\ c.id \in Ids(credentials') => Row(credentials', c.id).userId = c.userId
          /\ c \notin credentials' => c.userId = sessionUser
          /\ (last'.route \in {"update", "delete"} /\ last'.cred = c.id
                /\ sessionUser # 0 /\ c.userId # sessionUser) =>
               (last'.status \in {400, 404} /\ c \in credentials')
     /\ \A c \in credentials' :
          c.id \notin Ids(credentials) => (sessionUser # 0 /\ c.userId = sessionUser)]_vars

\* The second account sent an update that names itself as the owner for
\* the first account's row, and the row is as it was.
C25_Witness ==
  /\ Len(users) = 2
  /\ sessionUser = 2
  /\ last.route = "update"
  /\ last.status = 404
  /\ \E c \in credentials : c.id = last.cred /\ c.userId = 1
  /\ \E c \in credentials : c.userId = 2

\* C26: a credential request answered with an error status leaves the
\* table as it was.  Without a session the answer is 401; with one, a
\* body the schema rejects is answered 400 and an update or delete of an
\* id the session's user has no row for is answered 404.
C26_ErrorsChangeNothing ==
  [][(last'.route \in {"list", "create", "update", "delete"}) =>
       /\ last'.status >= 400 => (credentials' = credentials /\ nextCredId' = nextCredId)
       /\ sessionUser = 0 <=> last'.status = 401
       /\ last'.status \in {200, 201, 204, 400, 401, 404}
       /\ (last'.status = 400) => last'.route \in {"create", "update"}
       /\ (last'.status = 404) =>
            /\ last'.route \in {"update", "delete"}
            /\ ~\E c \in credentials : c.id = last'.cred /\ c.userId = sessionUser
       /\ (last'.route \in {"update", "delete"} /\ sessionUser # 0
             /\ last'.status # 400
             /\ ~\E c \in credentials : c.id = last'.cred /\ c.userId = sessionUser) =>
            last'.status = 404]_vars

\* A delete of an id that no longer exists was answered 404 with another
\* row in the table.
C26_Witness ==
  /\ last.route = "delete"
  /\ last.status = 404
  /\ credentials # {}
  /\ last.cred \notin Ids(credentials)
  /\ last.cred <= nextCredId

\* C27: a successful reset leaves every account's recovery verifier and
\* username as they were, so the phrase issued at registration verifies
\* after the reset as before and authorizes the next reset, however many
\* resets went before.
C27_PhraseOutlivesResets ==
  [][(last'.route = "reset" /\ last'.status = 200) =>
       /\ Len(users') = Len(users)
       /\ \A i \in 1 .. Len(users) :
            /\ users'[i].recoveryKey = users[i].recoveryKey
            /\ users'[i].username = users[i].username
            /\ verifyRecoveryKey(users', users[i].username, issued[i]).id = i
            /\ ResetPasswordResponse(users', users[i].username, issued[i]).status = 200]_vars

\* The second reset of an account under its phrase.
C27_Witness ==
  /\ last.route = "reset"
  /\ last.status = 200
  /\ Len(users) >= 1
  /\ resetCount[1] = 2
  /\ last.key = issued[1]
  /\ last.username = users[1].username

\* C28: the modal is closed until a registration has succeeded; while it
\* is open the phrase it displays is the one sent with the request that
\* succeeded, whatever earlier attempts generated; and the page closes it
\* or leaves for the vault only in a step taken with the confirmation
\* ticked.  The user loading another location in the browser is not a
\* step of the page.
C28_ModalGate ==
  [][/\ (~showRecoveryKey /\ showRecoveryKey') =>
          (registerStatus' = "success" /\ keyAttempt' \in succeeded')
     /\ showRecoveryKey' =>
          /\ authMounted'
          /\ keyAttempt' \in succeeded'
          /\ shownKey' = sent'[keyAttempt']
          /\ keyAttempt' = attempts'
     /\ (showRecoveryKey /\ (~showRecoveryKey' \/ ~authMounted')) =>
          (hasConfirmed \/ VisitHome)]_vars

\* The second attempt succeeded after the first failed, the modal shows
\* the second phrase, and the user has tried to dismiss it unconfirmed.
C28_Witness ==
  /\ showRecoveryKey /\ authMounted /\ ~hasConfirmed
  /\ attempts = 2 /\ succeeded = {2}
  /\ sent[1] # sent[2]
  /\ shownKey = sent[2]

\* C29: the score is 0 for the empty string and for no other; a string of
\* 12 characters or more is Moderate or Strong; a Strong string has 8
\* characters at least.
C29_LengthBounds ==
  toolPhase = "analyzed" =>
    /\ strOutcome.score = 0 <=> strPassword = <<>>
    /\ Len(strPassword) >= 12 => strOutcome.label \in {"Moderate", "Strong"}
    /\ strOutcome.label = "Strong" => Len(strPassword) >= 8

\* Twelve times one lowercase letter: the least a string of that length
\* scores.
C29_Witness ==
  /\ toolPhase = "analyzed"
  /\ Len(strPassword) = 12
  /\ \A i \in 1 .. 12 : strPassword[i] = "a"
  /\ strOutcome = Strength(3, "Moderate", "bg-yellow-500")

=============================================================================
